---------------------------- MODULE Spec2Model ----------------------------
(***************************************************************************)
(* Rules engine of the four-player fortress chess variant (src/4chess.py). *)
(*                                                                         *)
(* A position string such as "F03" is modelled as the pair <<x, y>> of the *)
(* 0-based letter number (ord(letter) - ord("A")) and the row number; a    *)
(* slot of Board.layout is addressed by its 1-based number 1..256.  A      *)
(* Square is the record [position, piece_at]; position 0 stands for the    *)
(* Python value None (no Square).                                          *)
(***************************************************************************)
EXTENDS Integers, Sequences, FiniteSets, TLC

\* ------------------------------------------------------------------ bounds
\* Board.move is offered while fewer than MaxDepth moves are on move_stack.
MaxDepth == 1

\* the longest run of calls on one board
MaxCalls == 2

\* Square.pos_rot90 is called with times from -MaxTimes to MaxTimes
MaxTimes == 4

\* ------------------------------------------------------------ CheckErrorMsg
SquareToOutOfBounds    == "SquareToOutOfBounds"
SquareFromNoPiece      == "SquareFromNoPiece"
SquareFromNotYourPiece == "SquareFromNotYourPiece"
SquareFromAndToSame    == "SquareFromAndToSame"
FriendlyFire           == "FriendlyFire"
WallsInTheWay          == "WallsInTheWay"
PromotionFromNonPawn   == "PromotionFromNonPawn"
PromotionOutOfBounds   == "PromotionOutOfBounds"
SquareToIllegal        == "SquareToIllegal"
CheckmateYourself      == "CheckmateYourself"
CheckmateTeammate      == "CheckmateTeammate"
TargetFrozen           == "TargetFrozen"
\* exceptions that escape a call
AttributeError == "AttributeError"
IndexError     == "IndexError"
KeyError       == "KeyError"
RecursionError == "RecursionError"
ValueError     == "ValueError"
NoError        == "NoError"

\* -------------------------------------------------------------------- Piece
pieces == <<"king", "queen", "rook", "bishop", "knight", "pawn">>

COLORS == <<"white", "brown", "grey", "black">>

TEAMS == <<<<"white", "grey">>, <<"brown", "black">>>>

ColorSet == {COLORS[k] : k \in 1..4}

Piece(type, color) == [type |-> type, color |-> color]

\* piece_at = None (an empty Square)
NoPiece == [type |-> "none", color |-> "none"]

\* COLORS.index(color), 0-based
ColorIndex(color) == CHOOSE k \in 0..3 : COLORS[k + 1] = color

\* COLORS[k] with Python's wrap-around of negative subscripts (-4 <= k <= 3)
ColorAt(k) == COLORS[(k % 4) + 1]

\* COLORS[::-1].index(color)
RevIndex(color) == 3 - ColorIndex(color)

\* ------------------------------------------------------------------- Square
\* letter numbers of the columns
ColA == 0
ColB == 1
ColC == 2
ColD == 3
ColE == 4
ColF == 5
ColG == 6
ColH == 7
ColI == 8
ColJ == 9
ColK == 10
ColL == 11
ColM == 12
ColN == 13
ColO == 14
ColP == 15

pos_stoi(pos) == pos[1] + (pos[2] - 1) * 16 + 1

pos_itos(pos) == <<(pos - 1) % 16, (pos \div 16) + (IF pos % 16 # 0 THEN 1 ELSE 0)>>

RECURSIVE pos_rot90(_, _)
pos_rot90(pos, times) ==
    IF times = 0 THEN pos
    ELSE pos_rot90(<<ColP - pos[2] + 1, pos[1] + 1>>, times - 1)

Square(position, piece_at) == [position |-> position, piece_at |-> piece_at]

\* the value None where a Square is expected
NoSquare == [position |-> 0, piece_at |-> NoPiece]

\* Square.column (0-based) and Square.row of a layout slot
column(position) == (position - 1) % 16

row(position) == ((position - 1) \div 16) + 1

\* Square.get_ray: the positions of the diagonal from pos1 to pos2, inclusive
get_ray(pos1, pos2) ==
    LET xstep == IF pos1[1] < pos2[1] THEN 1 ELSE -1
        ystep == IF pos1[2] < pos2[2] THEN 1 ELSE -1
        nx    == (IF pos1[1] < pos2[1] THEN pos2[1] - pos1[1] ELSE pos1[1] - pos2[1])
        ny    == (IF pos1[2] < pos2[2] THEN pos2[2] - pos1[2] ELSE pos1[2] - pos2[2])
        n     == IF nx < ny THEN nx ELSE ny
    IN  {<<pos1[1] + k * xstep, pos1[2] + k * ystep>> : k \in 0..n}

\* a list_in_list that always requires both elements
list_all_in_list(a, b, list2, require_all) == a \in list2 /\ b \in list2

\* utils.list_in_list for a two-element first list, list2 given as a set
list_in_list(a, b, list2, require_all) ==
    IF require_all THEN (a \in list2 /\ b \in list2)
    ELSE (a \in list2 \/ b \in list2)

\* Square.check_enemy
check_enemy(square, colors) ==
    square.position # 0 /\ square.piece_at # NoPiece /\ square.piece_at.color \in colors

\* -------------------------------------------------------------------- Board
\* the rows of the corners alone
AbsentRows == UNION {(a * 16 + 4 + 1)..(a * 16 + 12) : a \in {0, 1, 14, 15}}

\* the slots emptied out of the 16x16 grid by Board.__init__
AbsentSlots ==
    UNION {(a * 16 + 4 + 1)..(a * 16 + 12) : a \in {0, 1, 14, 15}}
    \cup UNION {((a * 16 + 1)..(a * 16 + 2)) \cup (((a + 1) * 16 - 2 + 1)..((a + 1) * 16)) : a \in 4..11}

\* a layout slot holds Absent (None), or the piece_at of its Square
Absent == [type |-> "absent", color |-> "absent"]

\* a starting set without the three fortress pieces
StartPiecesTwoRanks(n, a) ==
    LET rnbqkbnr == <<"rook", "knight", "bishop", "queen", "king", "bishop", "knight", "rook">>
    IN  {<<pos_stoi(pos_rot90(<<ColE + k, 3>>, n)), Piece(rnbqkbnr[k + 1], a)>> : k \in 0..7}
        \cup {<<pos_stoi(pos_rot90(<<ColE + k, 4>>, n)), Piece("pawn", a)>> : k \in 0..7}

\* the pieces Board.__init__ places for the color with rotation n
StartPieces(n, a) ==
    LET rnbqkbnr == <<"rook", "knight", "bishop", "queen", "king", "bishop", "knight", "rook">>
    IN  {<<pos_stoi(pos_rot90(<<ColE + k, 3>>, n)), Piece(rnbqkbnr[k + 1], a)>> : k \in 0..7}
        \cup {<<pos_stoi(pos_rot90(<<ColE + k, 4>>, n)), Piece("pawn", a)>> : k \in 0..7}
        \cup {<<pos_stoi(pos_rot90(<<ColN, 3>>, n)), Piece("knight", a)>>,
              <<pos_stoi(pos_rot90(<<ColO, 1>>, n)), Piece("bishop", a)>>,
              <<pos_stoi(pos_rot90(<<ColP, 4>>, n)), Piece("rook", a)>>}

StartPlacement ==
    StartPieces(0, "grey") \cup StartPieces(1, "brown")
    \cup StartPieces(2, "white") \cup StartPieces(3, "black")

StartLayout ==
    [i \in 1..256 |->
        IF \E s \in StartPlacement : s[1] = i
        THEN (CHOOSE s \in StartPlacement : s[1] = i)[2]
        ELSE IF i \in AbsentSlots THEN Absent ELSE NoPiece]


\* Board.currently_frozen
currently_frozen(self) == {k \in ColorSet : self.frozen[k]}

\* Board.get_teams (own_first = True): <<team of color, enemy team>>, as sets
get_teams(color) ==
    IF color \in {TEAMS[2][1], TEAMS[2][2]}
    THEN <<{TEAMS[2][1], TEAMS[2][2]}, {TEAMS[1][1], TEAMS[1][2]}>>
    ELSE <<{TEAMS[1][1], TEAMS[1][2]}, {TEAMS[2][1], TEAMS[2][2]}>>

\* Board.get_teammate
get_teammate(color) == ColorAt(ColorIndex(color) - 2)

\* Board.get_square for a slot number: the Square of the slot, or None
get_square(self, num) ==
    IF self.layout[num] = Absent THEN NoSquare ELSE Square(num, self.layout[num])

\* Board.update_square on a layout
update_square(layout, square) == [layout EXCEPT ![square.position] = square.piece_at]

\* Board.get_neighbour: the Square offset by (col, rw) from square, or None
get_neighbour(self, square, col, rw, adjust) ==
    LET c  == square.piece_at.color
        adj == square.piece_at # NoPiece /\ adjust
        dc == IF ~adj THEN col
              ELSE IF c = "black" THEN rw ELSE IF c = "brown" THEN -rw
              ELSE IF c = "grey" THEN col ELSE -col
        dr == IF ~adj THEN rw
              ELSE IF c = "grey" THEN rw ELSE IF c = "white" THEN -rw
              ELSE IF c = "brown" THEN col ELSE -col
        x  == column(square.position) + dc
        y  == row(square.position) + dr
    IN  IF x \notin ColA..ColP \/ y \notin 1..16 THEN NoSquare
        ELSE get_square(self, pos_stoi(<<x, y>>))

\* Board.get_kings raises IndexError: one of the colors not in ignore has
\* no king on the board
get_kings_raises(self, ignore) ==
    \E col \in ColorSet \ ignore : \A i \in 1..256 : self.layout[i] # Piece("king", col)

\* Board.get_kings: the king Square of each color not in ignore (the first
\* one in layout order; no color ever has two kings)
get_kings(self, ignore) ==
    [col \in ColorSet \ ignore |->
        Square(CHOOSE i \in 1..256 : self.layout[i] = Piece("king", col), Piece("king", col))]

\* the squares Board.get_pawn_promotion_rank lists for color
promotion_rank(color) ==
    {pos_stoi(pos_rot90(<<l, n>>, RevIndex(color))) :
        <<l, n>> \in {q \in (ColJ..ColP) \X (1..16) :
                        /\ q[2] >= (IF q[1] \in ColJ..ColL THEN 3 ELSE 1)
                        /\ q[2] < (IF q[1] \in ColJ..ColL THEN 15 ELSE 17)
                        /\ ~(q[1] \in {ColO, ColP} /\ 4 < q[2] /\ q[2] < 13)}}

\* Board.get_pawn_promotion_rank, by the index of the color in COLORS
PromotionRanks == <<promotion_rank(COLORS[1]), promotion_rank(COLORS[2]),
                    promotion_rank(COLORS[3]), promotion_rank(COLORS[4])>>

get_pawn_promotion_rank(color) == PromotionRanks[ColorIndex(color) + 1]

\* --------------------------------------------------------------------- Move
\* move.checks is None
NoChecks == [k \in {} |-> FALSE]

\* move.castling is None
NoCastling == <<>>

\* Move.__init__
Move(from_square, to_square, promotion) ==
    [from_square |-> from_square, to_square |-> to_square, promotion |-> promotion,
     castling |-> NoCastling, checks |-> NoChecks]

\* the elements of a list
Range(list) == {list[n] : n \in DOMAIN list}

\* the cells a ray scan of possible_moves appends from step b on: empty
\* squares up to the first occupied one, which is added if it is an enemy
RECURSIVE ray_moves(_, _, _, _, _, _)
ray_moves(self, square, dc, dr, b, enemy_team) ==
    LET t1 == get_neighbour(self, square, b * dc, b * dr, FALSE)
    IN  IF t1 = NoSquare THEN <<>>
        ELSE IF t1.piece_at = NoPiece
             THEN <<t1.position>> \o ray_moves(self, square, dc, dr, b + 1, enemy_team)
        ELSE IF t1.piece_at.color \in enemy_team THEN <<t1.position>>
        ELSE <<>>

\* the first occupied Square on a ray from step b on, or None
RECURSIVE ray_first(_, _, _, _, _)
ray_first(self, square, dc, dr, b) ==
    LET t1 == get_neighbour(self, square, b * dc, b * dr, FALSE)
    IN  IF t1 = NoSquare THEN NoSquare
        ELSE IF t1.piece_at = NoPiece THEN ray_first(self, square, dc, dr, b + 1)
        ELSE t1

OrthogonalDirs == <<<<1, 0>>, <<0, 1>>, <<-1, 0>>, <<0, -1>>>>

DiagonalDirs == <<<<1, 1>>, <<1, -1>>, <<-1, -1>>, <<-1, 1>>>>

\* the jumps of one orientation alone
KnightDirsUpright == <<<<1, 2>>, <<-1, 2>>, <<1, -2>>, <<-1, -2>>>>

KnightDirs == <<<<1, 2>>, <<-1, 2>>, <<1, -2>>, <<-1, -2>>,
                <<2, 1>>, <<2, -1>>, <<-2, 1>>, <<-2, -1>>>>

KingDirs == <<<<1, 1>>, <<1, 0>>, <<1, -1>>, <<0, -1>>,
              <<-1, -1>>, <<-1, 0>>, <<-1, 1>>, <<0, 1>>>>

\* the ray scans along the directions dirs, from the a-th direction on
RECURSIVE rays(_, _, _, _, _)
rays(self, square, dirs, a, enemy_team) ==
    IF a > Len(dirs) THEN <<>>
    ELSE ray_moves(self, square, dirs[a][1], dirs[a][2], 1, enemy_team)
         \o rays(self, square, dirs, a + 1, enemy_team)

\* the single steps along dirs that reach an empty or an enemy square, from
\* the a-th direction on
RECURSIVE steps(_, _, _, _, _)
steps(self, square, dirs, a, enemy_team) ==
    IF a > Len(dirs) THEN <<>>
    ELSE LET t1 == get_neighbour(self, square, dirs[a][1], dirs[a][2], FALSE)
         IN  (IF t1 # NoSquare /\ (t1.piece_at = NoPiece \/ t1.piece_at.color \in enemy_team)
              THEN <<t1.position>> ELSE <<>>)
             \o steps(self, square, dirs, a + 1, enemy_team)

\* the castling probe of the king branch of possible_moves, for one side
\* (queenside = 0 kingside, 1 queenside): "raise" when a probed cell is None,
\* "blocked" when a probed cell holds a piece, "free" otherwise
RECURSIVE castling_probe(_, _, _, _)
castling_probe(self, square, queenside, step) ==
    IF step >= 3 + queenside THEN "free"
    ELSE LET t1 == get_neighbour(self, square, IF queenside = 1 THEN -step ELSE step, 0, TRUE)
         IN  IF t1 = NoSquare THEN "raise"
             ELSE IF t1.piece_at # NoPiece THEN "blocked"
             ELSE castling_probe(self, square, queenside, step + 1)

\* Move.possible_moves raises AttributeError: enemy_team is a tuple, so the
\* removal of a frozen enemy color fails; and the castling probe reads
\* piece_at of None when it runs off the board
possible_moves_raises(self, square) ==
    \/ currently_frozen(self) \cap get_teams(square.piece_at.color)[2] # {}
    \/ /\ square.piece_at.type = "king"
       /\ \/ /\ self.castling_rights[square.piece_at.color][1]
             /\ castling_probe(self, square, 0, 1) = "raise"
          \/ /\ self.castling_rights[square.piece_at.color][2]
             /\ castling_probe(self, square, 1, 1) = "raise"

\* Move.possible_moves: the positions of the returned Squares, in the order
\* of the list
possible_moves(self, square) ==
    LET color      == square.piece_at.color
        type       == square.piece_at.type
        enemy_team == get_teams(color)[2]
        ahead      == get_neighbour(self, square, 0, 1, TRUE)
        home       == {pos_stoi(pos_rot90(<<ColD, n>>, RevIndex(color))) : n \in 5..12}
        t2         == get_neighbour(self, square, 0, 2, TRUE)
        attack(dc) == LET t1 == get_neighbour(self, square, dc, 1, TRUE)
                      IN  IF check_enemy(t1, enemy_team) THEN <<t1.position>> ELSE <<>>
        castle(queenside) ==
            IF self.castling_rights[color][queenside + 1]
               /\ castling_probe(self, square, queenside, 1) = "free"
            THEN <<get_neighbour(self, square, IF queenside = 1 THEN -2 ELSE 2, 0, TRUE).position>>
            ELSE <<>>
    IN  IF type = "pawn" THEN
            IF ahead = NoSquare THEN <<>>
            ELSE (IF ahead.piece_at = NoPiece
                  THEN <<ahead.position>>
                       \o (IF square.position \in home /\ t2 # NoSquare /\ t2.piece_at = NoPiece
                           THEN <<t2.position>> ELSE <<>>)
                  ELSE <<>>)
                 \o attack(1) \o attack(-1)
        ELSE IF type = "king" THEN
            steps(self, square, KingDirs, 1, enemy_team) \o castle(0) \o castle(1)
        ELSE
            (IF type \in {"rook", "queen"}
             THEN rays(self, square, OrthogonalDirs, 1, enemy_team) ELSE <<>>)
            \o (IF type \in {"bishop", "queen"}
                THEN rays(self, square, DiagonalDirs, 1, enemy_team) ELSE <<>>)
            \o (IF type \in {"knight", "queen"}
                THEN steps(self, square, KnightDirs, 1, enemy_team) ELSE <<>>)

\* the color of the pawn that check_check accepts on a corner of the king
pawn_corner_color(color, corner) ==
    LET index == ColorIndex(color) - 1
    IN  IF color \in {TEAMS[2][1], TEAMS[2][2]}
        THEN ColorAt(IF (corner % 2) = (IF color = COLORS[2] THEN 1 ELSE 0)
                     THEN index - 2 ELSE index)
        ELSE ColorAt((IF color = COLORS[3] THEN index - 2 ELSE index)
                     + corner - (corner % 2))

\* Move.check_check
check_check(self, square) ==
    IF square = NoSquare \/ square.piece_at = NoPiece \/ square.piece_at.type # "king"
    THEN FALSE
    ELSE
    LET enemy_team == get_teams(square.piece_at.color)[2]
        cf         == currently_frozen(self)
        hit(t1, types) == /\ t1 # NoSquare
                          /\ t1.piece_at # NoPiece
                          /\ t1.piece_at.color \in enemy_team
                          /\ t1.piece_at.type \in types
                          /\ t1.piece_at.color \notin cf
        corners    == <<<<-1, 1>>, <<-1, -1>>, <<1, 1>>, <<1, -1>>>>
    IN  \/ \E d \in Range(OrthogonalDirs) :
              hit(ray_first(self, square, d[1], d[2], 1), {"rook", "queen"})
        \/ \E d \in Range(DiagonalDirs) :
              hit(ray_first(self, square, d[1], d[2], 1), {"bishop", "queen"})
        \/ \E d \in Range(KnightDirs) :
              hit(get_neighbour(self, square, d[1], d[2], FALSE), {"knight", "queen"})
        \/ \E corner \in 0..3 :
              LET t1 == get_neighbour(self, square, corners[corner + 1][1],
                                      corners[corner + 1][2], FALSE)
              IN  /\ t1 # NoSquare
                  /\ t1.piece_at # NoPiece
                  /\ t1.piece_at.type = "pawn"
                  /\ t1.piece_at.color = pawn_corner_color(square.piece_at.color, corner)
                  /\ t1.piece_at.color \notin cf

\* ------------------------------------------------------- Board.is_valid
\* the squares that make is_valid look at the fortress walls
FortressSquares ==
    {pos_stoi(pos_rot90(<<a, b>>, n)) : <<n, a, b>> \in (0..3) \X (ColK..ColP) \X (1..6)}

\* the knight jumps that cross a wall, in the canonical corner
KnightWalls ==
    {<<<<ColF, 3>>, <<ColD, 2>>>>,
     <<<<ColF, 3>>, <<ColD, 4>>>>,
     <<<<ColF, 4>>, <<ColD, 3>>>>,
     <<<<ColE, 3>>, <<ColC, 2>>>>,
     <<<<ColE, 3>>, <<ColC, 4>>>>,
     <<<<ColE, 3>>, <<ColD, 1>>>>,
     <<<<ColE, 4>>, <<ColD, 2>>>>,
     <<<<ColE, 4>>, <<ColC, 3>>>>}

\* Square.pos_rot90_list of each knight jump, for the four rotations
KnightWallSquares ==
    {{pos_stoi(pos_rot90(a[1], n)), pos_stoi(pos_rot90(a[2], n))} :
        <<n, a>> \in (0..3) \X KnightWalls}

\* the pairs of diagonal rays that a bishop move may not join
BishopWalls ==
    {<<<<<<ColK, 3>>, <<ColL, 4>>>>, <<<<ColM, 5>>, <<ColN, 6>>>>>>,
     <<<<<<ColL, 3>>, <<ColM, 4>>>>, <<<<ColN, 5>>, <<ColN, 5>>>>>>,
     <<<<<<ColA, 14>>, <<ColL, 3>>>>, <<<<ColM, 2>>, <<ColN, 1>>>>>>,
     <<<<<<ColK, 3>>, <<ColA, 13>>>>, <<<<ColM, 1>>, <<ColM, 1>>>>>>,
     <<<<<<ColP, 1>>, <<ColM, 4>>>>, <<<<ColL, 5>>, <<ColA, 16>>>>>>,
     <<<<<<ColP, 2>>, <<ColN, 4>>>>, <<<<ColM, 5>>, <<ColB, 16>>>>>>,
     <<<<<<ColP, 3>>, <<ColO, 4>>>>, <<<<ColN, 5>>, <<ColC, 16>>>>>>,
     <<<<<<ColD, 16>>, <<ColN, 6>>>>, <<<<ColP, 4>>, <<ColP, 4>>>>>>}

\* the two rays of each entry, rotated, as sets of layout slots
BishopWallRays ==
    {<<{pos_stoi(q) : q \in get_ray(pos_rot90(a[1][1], n), pos_rot90(a[1][2], n))},
       {pos_stoi(q) : q \in get_ray(pos_rot90(a[2][1], n), pos_rot90(a[2][2], n))}>> :
        <<n, a>> \in (0..3) \X BishopWalls}

\* a wall test that looks at the diagonals alone
walls_of_bishops(from, to) ==
    /\ list_in_list(from, to, FortressSquares, FALSE)
    /\ \E a \in BishopWallRays :
          /\ list_in_list(from, to, a[1], FALSE)
          /\ list_in_list(from, to, a[2], FALSE)

\* the fortress condition of is_valid
walls_in_the_way(from, to) ==
    LET fx == column(from)
        tx == column(to)
        fr == row(from)
        tr == row(to)
    IN  /\ list_in_list(from, to, FortressSquares, FALSE)
        /\ \/ \E a \in KnightWallSquares : list_in_list(from, to, a, TRUE)
           \/ /\ list_in_list(fx, tx, {ColM, ColN}, TRUE)
              /\ ~(list_in_list(fr, tr, 1..4, TRUE) \/ list_in_list(fr, tr, 5..16, TRUE))
           \/ /\ list_in_list(fx, tx, {ColC, ColD}, TRUE)
              /\ ~(list_in_list(fr, tr, 1..12, TRUE) \/ list_in_list(fr, tr, 13..16, TRUE))
           \/ /\ list_in_list(fr, tr, {3, 4}, TRUE)
              /\ ~(list_in_list(fx, tx, ColA..ColD, TRUE) \/ list_in_list(fx, tx, ColE..ColP, TRUE))
           \/ /\ list_in_list(fr, tr, {13, 14}, TRUE)
              /\ ~(list_in_list(fx, tx, ColA..ColL, TRUE) \/ list_in_list(fx, tx, ColM..ColP, TRUE))
           \/ \E a \in BishopWallRays :
                 /\ list_in_list(from, to, a[1], FALSE)
                 /\ list_in_list(from, to, a[2], FALSE)

\* the castling flag is_valid sets on the move: the king leaves its home
\* square for the square two steps to either side
castling_of(move) ==
    LET color == move.from_square.piece_at.color
        k     == RevIndex(color)
    IN  IF move.from_square = Square(pos_stoi(pos_rot90(<<ColC, 8>>, k)), Piece("king", color))
        THEN IF move.to_square.position = pos_stoi(pos_rot90(<<ColC, 6>>, k)) THEN <<TRUE, FALSE>>
             ELSE IF move.to_square.position = pos_stoi(pos_rot90(<<ColC, 10>>, k)) THEN <<FALSE, TRUE>>
             ELSE NoCastling
        ELSE NoCastling

\* the positions the check simulation visits: the cells the king crosses
\* when castling, then the destination
check_path(self, move, castling) ==
    (IF castling = NoCastling THEN <<>>
     ELSE IF castling[1]
          THEN <<get_neighbour(self, move.from_square, 1, 0, TRUE).position>>
          ELSE <<get_neighbour(self, move.from_square, -1, 0, TRUE).position,
                 get_neighbour(self, move.from_square, -2, 0, TRUE).position>>)
    \o <<move.to_square.position>>

\* a simulation that puts the piece on pos and leaves it on its square too
simulated_copy(self, move, pos) ==
    update_square(self.layout,
                  Square(pos, IF move.promotion # NoPiece THEN move.promotion
                              ELSE move.from_square.piece_at))

\* the layout while the move is temporarily executed onto pos
simulated(self, move, pos) ==
    update_square(update_square(self.layout, Square(move.from_square.position, NoPiece)),
                  Square(pos, IF move.promotion # NoPiece THEN move.promotion
                              ELSE move.from_square.piece_at))

\* the color whose king stands on pos and is left out of the check map
ignored(self, pos) ==
    IF self.layout[pos].type = "king" THEN {self.layout[pos].color} ELSE {}

\* the check map computed with the move executed onto pos
simulated_checks(self, move, pos) ==
    LET sim == [self EXCEPT !.layout = simulated(self, move, pos)]
        kings == get_kings(sim, ignored(self, pos))
    IN  [k \in DOMAIN kings |-> check_check(sim, kings[k])]

\* dict.get(key, default)
DictGet(dict, key, default) == IF key \in DOMAIN dict THEN dict[key] ELSE default

\* the result of a call: what is returned or raised, the fields the call
\* leaves on the move, and the layout it leaves on the board
Result(ok, msg, raised, castling, checks, layout) ==
    [ok |-> ok, msg |-> msg, raised |-> raised, castling |-> castling,
     checks |-> checks, layout |-> layout]

\* a pass that leaves the simulated position on the board
check_pass_kept(self, move, castling, now, ignore_check, color, c) ==
    Result(~(~ignore_check /\ DictGet(now, color, TRUE)), CheckmateYourself, NoError,
           castling, now, simulated(self, move, move.to_square.position))

\* a pass that looks at the king of the mover alone
check_pass_own(self, move, castling, now, ignore_check, color, c) ==
    IF ~ignore_check /\ DictGet(now, color, TRUE)
    THEN Result(FALSE, CheckmateYourself, NoError, castling, now, self.layout)
    ELSE Result(TRUE, "", NoError, castling, now, self.layout)

\* what one pass of the loop returns once move.checks holds the check map
\* now of the simulated position
check_pass(self, move, castling, now, ignore_check, color, c) ==
    IF ~ignore_check /\ DictGet(now, color, TRUE)
    THEN Result(FALSE, CheckmateYourself, NoError, castling, now, self.layout)
    ELSE IF ~ignore_check /\ DictGet(now, c, TRUE) /\ ~DictGet(self.checked, c, FALSE)
    THEN Result(FALSE, CheckmateTeammate, NoError, castling, now, self.layout)
    ELSE Result(TRUE, "", NoError, castling, now, self.layout)

\* the loop over the simulated positions, from the k-th one on; checks is
\* move.checks when the pass begins
RECURSIVE check_loop(_, _, _, _, _, _, _)

\* the loop after the pass over the k-th position has ended as passed
check_next(self, move, castling, path, k, ignore_check, passed) ==
    IF ~passed.ok THEN passed
    ELSE check_loop(self, move, castling, path, k + 1, passed.checks, ignore_check)

\* the pass over the k-th position, sim being its simulated layout
check_sim(self, move, castling, path, k, checks, ignore_check, sim) ==
    IF get_kings_raises([self EXCEPT !.layout = sim], ignored(self, path[k]))
    THEN Result(FALSE, "", IndexError, castling, checks, sim)
    ELSE check_next(self, move, castling, path, k, ignore_check,
                    check_pass(self, move, castling, simulated_checks(self, move, path[k]),
                               ignore_check, move.from_square.piece_at.color,
                               CHOOSE t \in get_teams(move.from_square.piece_at.color)[1] :
                                         t # move.from_square.piece_at.color))

check_loop(self, move, castling, path, k, checks, ignore_check) ==
    IF k > Len(path) THEN Result(TRUE, "", NoError, castling, checks, self.layout)
    ELSE check_sim(self, move, castling, path, k, checks, ignore_check,
                   simulated(self, move, path[k]))

\* the end of is_valid, castling being the flag it has set on the move
check_castling(self, move, castling, ignore_check) ==
    check_loop(self, move, castling, check_path(self, move, castling), 1, move.checks,
               ignore_check)

\* Board.is_valid
is_valid(self, move, ignore_turn, ignore_check) ==
    LET from  == move.from_square
        to    == move.to_square
        color == from.piece_at.color
        team  == get_teams(color)[1]
        fail(msg)  == Result(FALSE, msg, NoError, move.castling, move.checks, self.layout)
        raise(exc) == Result(FALSE, "", exc, move.castling, move.checks, self.layout)
    IN  IF to = NoSquare THEN fail(SquareToOutOfBounds)
        ELSE IF from = NoSquare THEN raise(AttributeError)
        ELSE IF from.piece_at = NoPiece THEN fail(SquareFromNoPiece)
        ELSE IF ~ignore_turn /\ color # self.turn THEN fail(SquareFromNotYourPiece)
        ELSE IF from = to THEN fail(SquareFromAndToSame)
        ELSE IF to.piece_at # NoPiece /\ to.piece_at.color \in team THEN fail(FriendlyFire)
        ELSE IF walls_in_the_way(from.position, to.position) THEN fail(WallsInTheWay)
        ELSE IF move.promotion # NoPiece /\ from.piece_at.type # "pawn"
             THEN fail(PromotionFromNonPawn)
        ELSE IF move.promotion # NoPiece /\ to.position \notin get_pawn_promotion_rank(color)
             THEN fail(PromotionOutOfBounds)
        ELSE IF to.piece_at # NoPiece /\ to.piece_at.color \in currently_frozen(self)
             THEN fail(TargetFrozen)
        ELSE IF possible_moves_raises(self, from) THEN raise(AttributeError)
        ELSE IF to.position \notin Range(possible_moves(self, from)) THEN fail(SquareToIllegal)
        ELSE check_castling(self, move, castling_of(move), ignore_check)

\* ------------------------------------------ Move.possible_legal_moves_color
\* the squares holding a piece of color
squares_of(self, color) ==
    {Square(i, self.layout[i]) : i \in {j \in 1..256 : self.layout[j].color = color}}

\* the destinations in pm that possible_legal_moves_color keeps: those
\* holding no piece of a frozen color
unfrozen(self, pm) ==
    {d \in Range(pm) : self.layout[d] = NoPiece \/ self.layout[d].color \notin currently_frozen(self)}

\* a plain move to each destination and nothing else
variants_plain(self, square, dests) ==
    {Move(square, get_square(self, d), NoPiece) : d \in dests}

\* a plain move to each destination and, for a pawn reaching its promotion
\* rank, a queening one
variants(self, square, dests) ==
    {Move(square, get_square(self, d), NoPiece) : d \in dests}
    \cup {Move(square, get_square(self, d), Piece("queen", square.piece_at.color)) :
            d \in {e \in dests : /\ square.piece_at.type = "pawn"
                                  /\ e \in get_pawn_promotion_rank(square.piece_at.color)}}

\* the moves possible_legal_moves_color hands to is_valid for one square
candidate_moves(self, square) ==
    variants(self, square, unfrozen(self, possible_moves(self, square)))

\* how a call ends that returns nothing of interest: the exception raised
\* (or NoError) and the layout it leaves on the board
Failure(raised, layout) == [raised |-> raised, layout |-> layout]

\* is_valid fails on the move of square to d, a destination that
\* possible_legal_moves_color keeps
raising(self, square, d) ==
    /\ self.layout[d] = NoPiece \/ self.layout[d].color \notin currently_frozen(self)
    /\ is_valid(self, Move(square, get_square(self, d), NoPiece), TRUE, TRUE).raised # NoError

\* the squares on which possible_legal_moves_color fails: possible_moves
\* fails there, or is_valid fails on one of the destinations (which takes a
\* king missing from the board: a simulated position misses a king only if
\* the board does, the simulation moving one piece and leaving out the color
\* of a king it removes)
failing(self, squares, missing) ==
    {square \in squares :
        \/ possible_moves_raises(self, square)
        \/ /\ missing
           /\ \E d \in Range(possible_moves(self, square)) : raising(self, square, d)}

\* the least number of a set
least(ns) == CHOOSE n \in ns : \A k \in ns : n <= k

\* the first destination in the list pm on which is_valid fails
first_raising(self, square, pm) ==
    pm[least({n \in DOMAIN pm : raising(self, square, pm[n])})]

\* how possible_legal_moves_color ends on the square where it fails:
\* AttributeError from possible_moves, or IndexError from the check
\* simulation of is_valid, which leaves the simulated layout on the board
failure_on(self, square) ==
    IF possible_moves_raises(self, square) THEN Failure(AttributeError, self.layout)
    ELSE Failure(IndexError,
                 is_valid(self, Move(square, get_square(self,
                                       first_raising(self, square, possible_moves(self, square))),
                                     NoPiece), TRUE, TRUE).layout)

\* how possible_legal_moves_color ends, given the squares of the color and
\* those of them on which it fails: ValueError without a piece of the color,
\* else as on the first failing square in layout order
failure_of(self, squares, bad) ==
    IF squares = {} THEN Failure(ValueError, self.layout)
    ELSE IF bad = {} THEN Failure(NoError, self.layout)
    ELSE failure_on(self, CHOOSE square \in bad : \A q \in bad : square.position <= q.position)

\* how Move.possible_legal_moves_color ends
possible_legal_moves_color_failure(self, color) ==
    failure_of(self, squares_of(self, color),
               failing(self, squares_of(self, color), get_kings_raises(self, {})))

\* Move.possible_legal_moves_color, as the set of the moves it returns
possible_legal_moves_color(self, color) ==
    UNION {{m \in candidate_moves(self, square) : is_valid(self, m, TRUE, TRUE).ok} :
              square \in squares_of(self, color)}

\* ------------------------------------------------------------ Board, go on
\* Board.is_mate: 0 none, 1 checkmate, 2 stalemate
is_mate(self, color) ==
    IF \E square \in squares_of(self, color) :
          \E m \in candidate_moves(self, square) : is_valid(self, m, TRUE, TRUE).ok
    THEN 0
    ELSE IF self.checked[color] THEN 1
    ELSE 2

\* how Board.is_mate ends, listed being how possible_legal_moves_color ended
is_mate_after(self, color, listed) ==
    IF listed.raised # NoError THEN listed
    ELSE IF color \notin DOMAIN self.checked /\ possible_legal_moves_color(self, color) = {}
    THEN Failure(KeyError, self.layout)
    ELSE Failure(NoError, self.layout)

\* how Board.is_mate ends
is_mate_failure(self, color) ==
    is_mate_after(self, color, possible_legal_moves_color_failure(self, color))

\* the frozen map of update_frozen, mates being the pairs <<color, is_mate>>
frozen_by(mates) == [k \in ColorSet |-> \E q \in mates : q[1] = k /\ q[2] # 0]

\* Board.update_frozen
update_frozen(self) == frozen_by({<<k, is_mate(self, k)>> : k \in ColorSet})

\* how update_frozen ends, ends being the pairs <<color index, how is_mate
\* of the color ends>>: as the first one, in the order of COLORS, that fails
first_failure(self, ends) ==
    IF \A q \in ends : q[2].raised = NoError THEN Failure(NoError, self.layout)
    ELSE (CHOOSE q \in ends : /\ q[2].raised # NoError
                              /\ \A o \in ends : o[2].raised # NoError => q[1] <= o[1])[2]

\* how Board.update_frozen ends
update_frozen_failure(self) ==
    first_failure(self, {<<k, is_mate_failure(self, COLORS[k])>> : k \in 1..4})

\* Board.check_checks
check_checks(self) ==
    LET kings == get_kings(self, {})
    IN  [k \in ColorSet |-> check_check(self, kings[k])]

\* a next_turn that steps once and does not look at frozen
next_turn_once(frozen, turn, jumps, n) == ColorAt(ColorIndex(turn) + jumps)

\* Board.next_turn with skip_frozen: the color the turn ends on after steps
\* of jumps, n colors having been skipped; "" when every color is frozen and
\* the recursion never ends
RECURSIVE next_turn(_, _, _, _)
next_turn(frozen, turn, jumps, n) ==
    LET t == ColorAt(ColorIndex(turn) + jumps)
    IN  IF ~frozen[t] THEN t
        ELSE IF n >= 4 THEN ""
        ELSE next_turn(frozen, t, jumps, n + 1)

\* the rook squares of a castling: <<index, corner square, square next to the king>>
RookSquares == {<<1, <<ColC, 5>>, <<ColC, 7>>>>, <<2, <<ColC, 12>>, <<ColC, 9>>>>}

\* the layout after the rook of a castling went from rook_start to rook_end
relocate_rook(layout, castling, color, undo) ==
    IF castling = NoCastling THEN layout
    ELSE LET r == CHOOSE q \in RookSquares : castling[q[1]]
             rook_start == pos_stoi(pos_rot90(IF undo THEN r[3] ELSE r[2], RevIndex(color)))
             rook_end   == pos_stoi(pos_rot90(IF undo THEN r[2] ELSE r[3], RevIndex(color)))
         IN  update_square(update_square(layout, Square(rook_start, NoPiece)),
                           Square(rook_end, layout[rook_start]))

\* castling_rights after the right used by the castling is set to value
set_right(castling_rights, castling, color, value) ==
    IF castling = NoCastling THEN castling_rights
    ELSE [castling_rights EXCEPT ![color] =
             IF castling[1] THEN <<value, castling_rights[color][2]>>
             ELSE <<castling_rights[color][1], value>>]

\* winner = None
NoWinner == <<>>

\* the team of color, as in TEAMS
team_of(color) == IF color \in {TEAMS[2][1], TEAMS[2][2]} THEN TEAMS[2] ELSE TEAMS[1]

\* the end of Board.move: the turn passes to t, or the recursion of
\* next_turn never ends
move_turn(s3, t) ==
    IF t = "" THEN [board |-> s3, raised |-> RecursionError]
    ELSE [board |-> [s3 EXCEPT !.turn = t], raised |-> NoError]

\* a Board.move that declares the winner as soon as one color of the other
\* team is frozen
move_won_any(s2, m) ==
    move_turn([s2 EXCEPT
                 !.winner = IF \E a \in get_teams(m.from_square.piece_at.color)[2] : s2.frozen[a]
                            THEN team_of(m.from_square.piece_at.color)
                            ELSE s2.winner,
                 !.move_stack = Append(s2.move_stack, m)],
              next_turn(s2.frozen, s2.turn, 1, 1))

\* Board.move once update_frozen has set frozen on the board s2
move_won(s2, m) ==
    move_turn([s2 EXCEPT
                 !.winner = IF \A a \in get_teams(m.from_square.piece_at.color)[2] : s2.frozen[a]
                            THEN team_of(m.from_square.piece_at.color)
                            ELSE s2.winner,
                 !.move_stack = Append(s2.move_stack, m)],
              next_turn(s2.frozen, s2.turn, 1, 1))

\* Board.move from update_frozen on, f being how update_frozen ends on the
\* board s1
move_frozen(s1, m, f) ==
    IF f.raised # NoError
    THEN [board |-> [s1 EXCEPT !.layout = f.layout], raised |-> f.raised]
    ELSE move_won([s1 EXCEPT !.frozen = update_frozen(s1)], m)

\* the board of Board.move before update_frozen, placed being the layout
\* with the piece moved
move_placed(self, m, placed) ==
    [self EXCEPT
       !.graveyard = IF m.to_square.piece_at # NoPiece
                     THEN Append(self.graveyard, m.to_square.piece_at)
                     ELSE self.graveyard,
       !.layout = relocate_rook(placed, m.castling, m.from_square.piece_at.color, FALSE),
       !.castling_rights = set_right(self.castling_rights, m.castling,
                                     m.from_square.piece_at.color, FALSE),
       !.checked = IF m.checks # NoChecks THEN m.checks ELSE self.checked]

\* the rest of Board.move on the board s1
move_on(s1, m) == move_frozen(s1, m, update_frozen_failure(s1))

\* Board.move: the board after the call and the exception that ended it.
\* m carries the castling and checks fields is_valid left on it.
move(self, m) ==
    move_on(move_placed(self, m,
                update_square(update_square(self.layout, Square(m.from_square.position, NoPiece)),
                              Square(m.to_square.position,
                                     IF m.promotion # NoPiece THEN m.promotion
                                     ELSE m.from_square.piece_at))),
            m)

\* the end of Board.pop: the turn goes back to t, or the recursion of
\* next_turn never ends
pop_turn(s4, t) ==
    IF t = "" THEN [board |-> s4, returned |-> FALSE, raised |-> RecursionError]
    ELSE [board |-> [s4 EXCEPT !.turn = t], returned |-> TRUE, raised |-> NoError]

\* Board.pop once update_frozen has set frozen on the board s3
pop_castling(s3, m) ==
    pop_turn([s3 EXCEPT
                !.layout = relocate_rook(s3.layout, m.castling, m.from_square.piece_at.color, TRUE),
                !.castling_rights = set_right(s3.castling_rights, m.castling,
                                              m.from_square.piece_at.color, TRUE)],
             next_turn(s3.frozen, s3.turn, -1, 1))

\* Board.pop from update_frozen on, f being how update_frozen ends on the
\* board s2
pop_frozen(s2, m, f) ==
    IF f.raised # NoError
    THEN [board |-> [s2 EXCEPT !.layout = f.layout], returned |-> FALSE, raised |-> f.raised]
    ELSE pop_castling([s2 EXCEPT !.frozen = update_frozen(s2)], m)

\* the rest of Board.pop on the board s2
pop_on(s2, m) == pop_frozen(s2, m, update_frozen_failure(s2))

\* Board.pop from the checks on, s1 being the board with the squares
\* restored
pop_checked(s1, m) ==
    IF m.checks = NoChecks /\ get_kings_raises(s1, {})
    THEN [board |-> s1, returned |-> FALSE, raised |-> IndexError]
    ELSE pop_on([s1 EXCEPT !.checked = IF m.checks # NoChecks THEN m.checks
                                       ELSE check_checks(s1)], m)

\* Board.pop of the move m of a non-empty move_stack
pop_move(self, m) ==
    pop_checked([self EXCEPT
                   !.move_stack = SubSeq(self.move_stack, 1, Len(self.move_stack) - 1),
                   !.graveyard = IF m.to_square.piece_at # NoPiece
                                 THEN SubSeq(self.graveyard, 1, Len(self.graveyard) - 1)
                                 ELSE self.graveyard,
                   !.layout = update_square(update_square(self.layout, m.from_square),
                                            m.to_square)],
                m)

\* Board.pop: the board after the call, what it returned and the exception
\* that ended it
pop(self) ==
    IF self.move_stack = <<>> THEN [board |-> self, returned |-> FALSE, raised |-> NoError]
    ELSE pop_move(self, self.move_stack[Len(self.move_stack)])

\* Board.__init__
NewBoard ==
    [turn |-> "white",
     graveyard |-> <<>>,
     castling_rights |-> [a \in ColorSet |-> <<TRUE, TRUE>>],
     checked |-> [a \in ColorSet |-> FALSE],
     frozen |-> [a \in ColorSet |-> FALSE],
     layout |-> StartLayout,
     winner |-> NoWinner,
     move_stack |-> <<>>]

\* ---------------------------------------------------------------- positions
\* The positions the game is examined from: the board as constructed, and
\* boards of a game in progress.  A board in progress is a new Board whose
\* squares were set with update_square (pieces of the starting set, the four
\* kings among them), followed by check_checks() and update_frozen(); the
\* pieces that left the board are in the graveyard.

\* how many pieces of a type a color starts with
StartCount(type) ==
    IF type \in {"king", "queen"} THEN 1 ELSE IF type = "pawn" THEN 8 ELSE 3

\* n copies of piece
RECURSIVE Copies(_, _)
Copies(piece, n) == IF n <= 0 THEN <<>> ELSE <<piece>> \o Copies(piece, n - 1)

\* the pieces of the starting set that are not in the placement
RECURSIVE Captured(_, _)
Captured(placement, k) ==
    IF k >= 24 THEN <<>>
    ELSE LET piece == Piece(pieces[(k % 6) + 1], COLORS[(k \div 6) + 1])
         IN  Copies(piece, StartCount(piece.type)
                           - Cardinality({q \in placement : q[2] = piece}))
             \o Captured(placement, k + 1)

\* the board b after check_checks()
Checked(b) == [b EXCEPT !.checked = check_checks(b)]

\* the board b after update_frozen()
Frozen(b) == [b EXCEPT !.frozen = update_frozen(b)]

\* placement: a set of <<position, piece>>
Arranged(placement, turn) ==
    Frozen(Checked([NewBoard EXCEPT
                      !.layout = [i \in 1..256 |->
                                     IF \E q \in placement : pos_stoi(q[1]) = i
                                     THEN (CHOOSE q \in placement : pos_stoi(q[1]) = i)[2]
                                     ELSE IF i \in AbsentSlots THEN Absent ELSE NoPiece],
                      !.turn = turn,
                      !.graveyard = Captured(placement, 0)]))

\* white can take the last free brown piece; the brown king is walled in
\* by black pieces
BoxPlacement ==
    {<<<<ColN, 9>>, Piece("king", "brown")>>, <<<<ColM, 8>>, Piece("knight", "black")>>,
     <<<<ColM, 9>>, Piece("knight", "black")>>, <<<<ColM, 10>>, Piece("knight", "black")>>,
     <<<<ColN, 8>>, Piece("rook", "black")>>, <<<<ColN, 10>>, Piece("rook", "black")>>,
     <<<<ColC, 8>>, Piece("king", "black")>>, <<<<ColH, 14>>, Piece("king", "white")>>,
     <<<<ColI, 3>>, Piece("king", "grey")>>, <<<<ColF, 10>>, Piece("knight", "brown")>>,
     <<<<ColG, 12>>, Piece("knight", "white")>>}

\* the same board once white has taken it: brown cannot move
BoxedPlacement ==
    (BoxPlacement \ {<<<<ColF, 10>>, Piece("knight", "brown")>>,
                     <<<<ColG, 12>>, Piece("knight", "white")>>})
        \cup {<<<<ColF, 10>>, Piece("knight", "white")>>}

\* two grey rooks hold the black king on C08 (the line of the rook on C11
\* has just been opened), a brown rook and a brown bishop cover cells next
\* to the grey king, and pieces stand beside the fortress walls
MatePlacement ==
    {<<<<ColC, 8>>, Piece("king", "black")>>, <<<<ColH, 11>>, Piece("king", "grey")>>,
     <<<<ColH, 14>>, Piece("king", "white")>>, <<<<ColN, 9>>, Piece("king", "brown")>>,
     <<<<ColC, 11>>, Piece("rook", "grey")>>, <<<<ColD, 2>>, Piece("rook", "grey")>>,
     <<<<ColG, 9>>, Piece("rook", "brown")>>, <<<<ColN, 6>>, Piece("bishop", "brown")>>,
     <<<<ColF, 3>>, Piece("knight", "white")>>, <<<<ColK, 14>>, Piece("knight", "grey")>>}

\* the white king is at home with both rooks in their corners, a white pawn
\* stands one step from its promotion rank with brown pieces to capture
\* there, and the other kings are at home
CastlePlacement ==
    {<<<<ColH, 14>>, Piece("king", "white")>>, <<<<ColE, 14>>, Piece("rook", "white")>>,
     <<<<ColL, 14>>, Piece("rook", "white")>>, <<<<ColG, 8>>, Piece("pawn", "white")>>,
     <<<<ColF, 7>>, Piece("pawn", "brown")>>, <<<<ColH, 7>>, Piece("knight", "brown")>>,
     <<<<ColI, 3>>, Piece("king", "grey")>>, <<<<ColC, 8>>, Piece("king", "black")>>,
     <<<<ColN, 9>>, Piece("king", "brown")>>, <<<<ColC, 5>>, Piece("rook", "black")>>,
     <<<<ColL, 3>>, Piece("rook", "grey")>>, <<<<ColD, 9>>, Piece("pawn", "black")>>,
     <<<<ColM, 12>>, Piece("bishop", "brown")>>}

\* the white king is at home and has not castled; its kingside rook stands
\* in its corner, between the king and a brown rook on the same row, and the
\* rook of the queenside corner has left the board
ShieldPlacement ==
    {<<<<ColH, 14>>, Piece("king", "white")>>, <<<<ColE, 14>>, Piece("rook", "white")>>,
     <<<<ColA, 14>>, Piece("rook", "brown")>>, <<<<ColI, 3>>, Piece("king", "grey")>>,
     <<<<ColC, 8>>, Piece("king", "black")>>, <<<<ColN, 9>>, Piece("king", "brown")>>}

\* a white knight stands between the grey king and a black rook, a brown
\* knight between a grey rook and the black king, which has gone into its
\* fortress and stands on a cell a white pawn on the last row before the
\* absent cells captures to; a grey rook stands inside a fortress wall, and
\* a white queen in the open, a knight's jump from the black rook
TeamPlacement ==
    {<<<<ColH, 14>>, Piece("king", "white")>>, <<<<ColI, 3>>, Piece("king", "grey")>>,
     <<<<ColN, 9>>, Piece("king", "brown")>>, <<<<ColD, 2>>, Piece("king", "black")>>,
     <<<<ColD, 1>>, Piece("bishop", "black")>>, <<<<ColE, 3>>, Piece("pawn", "white")>>,
     <<<<ColD, 3>>, Piece("knight", "brown")>>, <<<<ColD, 6>>, Piece("rook", "grey")>>,
     <<<<ColM, 4>>, Piece("rook", "grey")>>, <<<<ColI, 5>>, Piece("knight", "white")>>,
     <<<<ColI, 9>>, Piece("rook", "black")>>, <<<<ColK, 8>>, Piece("queen", "white")>>}

\* the brown and the black king are shut in by pawns of their color that
\* cannot move; brown can still move a pawn, which a white knight can take,
\* and black can only take that knight with a pawn
WinPlacement ==
    {<<<<ColH, 14>>, Piece("king", "white")>>, <<<<ColG, 10>>, Piece("knight", "white")>>,
     <<<<ColI, 3>>, Piece("king", "grey")>>, <<<<ColG, 9>>, Piece("pawn", "grey")>>,
     <<<<ColH, 8>>, Piece("pawn", "brown")>>, <<<<ColF, 9>>, Piece("pawn", "black")>>,
     <<<<ColA, 15>>, Piece("king", "brown")>>, <<<<ColA, 14>>, Piece("pawn", "brown")>>,
     <<<<ColA, 16>>, Piece("pawn", "brown")>>, <<<<ColB, 14>>, Piece("pawn", "brown")>>,
     <<<<ColB, 15>>, Piece("pawn", "brown")>>, <<<<ColB, 16>>, Piece("pawn", "brown")>>,
     <<<<ColP, 2>>, Piece("king", "black")>>, <<<<ColP, 1>>, Piece("pawn", "black")>>,
     <<<<ColP, 3>>, Piece("pawn", "black")>>, <<<<ColO, 1>>, Piece("pawn", "black")>>,
     <<<<ColO, 2>>, Piece("pawn", "black")>>, <<<<ColO, 3>>, Piece("pawn", "black")>>}

\* the black king is in check from a white bishop, and a brown knight has
\* just left the line of a grey rook to the black king; the first white
\* piece of the layout, a knight, has a brown pawn on the first cell it can
\* go to
OpenLinePlacement ==
    {<<<<ColH, 14>>, Piece("king", "white")>>, <<<<ColI, 3>>, Piece("king", "grey")>>,
     <<<<ColN, 9>>, Piece("king", "brown")>>, <<<<ColC, 8>>, Piece("king", "black")>>,
     <<<<ColC, 11>>, Piece("rook", "grey")>>, <<<<ColF, 3>>, Piece("knight", "white")>>,
     <<<<ColE, 10>>, Piece("bishop", "white")>>, <<<<ColG, 5>>, Piece("pawn", "brown")>>,
     <<<<ColE, 11>>, Piece("knight", "brown")>>}

\* the boards in progress, with the color to move
Positions ==
    {Arranged(BoxPlacement, "white"), Arranged(BoxedPlacement, "grey"),
     Arranged(MatePlacement, "grey"), Arranged(MatePlacement, "black"),
     Arranged(CastlePlacement, "white"), Arranged(ShieldPlacement, "white"),
     Arranged(TeamPlacement, "white"), Arranged(WinPlacement, "white"),
     Arranged(OpenLinePlacement, "grey")}

\* -------------------------------------------------------------- the machine
VARIABLES
    turn, graveyard, castling_rights, checked, frozen, layout, winner, move_stack,
    \* the last call on the board: its name, the name of the call before it,
    \* its arguments, the exception that ended it, what it returned, and the
    \* board as it was before the call (for pop: before the move it undoes)
    last,
    \* the query a caller is about to make: <<>> or the call's name and arguments
    pending,
    \* the number of calls made on the board
    calls

vars == <<turn, graveyard, castling_rights, checked, frozen, layout, winner, move_stack,
          last, pending, calls>>

\* the Board object
Self ==
    [turn |-> turn, graveyard |-> graveyard, castling_rights |-> castling_rights,
     checked |-> checked, frozen |-> frozen, layout |-> layout, winner |-> winner,
     move_stack |-> move_stack]

\* the Board object becomes b
Becomes(b) ==
    /\ turn' = b.turn
    /\ graveyard' = b.graveyard
    /\ castling_rights' = b.castling_rights
    /\ checked' = b.checked
    /\ frozen' = b.frozen
    /\ layout' = b.layout
    /\ winner' = b.winner
    /\ move_stack' = b.move_stack

\* the Board object is b
Is(b) ==
    /\ turn = b.turn
    /\ graveyard = b.graveyard
    /\ castling_rights = b.castling_rights
    /\ checked = b.checked
    /\ frozen = b.frozen
    /\ layout = b.layout
    /\ winner = b.winner
    /\ move_stack = b.move_stack

Called(call, prev, args, raised, returned, before) ==
    [call |-> call, prev |-> prev, args |-> args, raised |-> raised,
     returned |-> returned, before |-> before]

\* the board is as Board() builds it, or as update_square calls arranged it
Built(b) == Called(IF b = NewBoard THEN "Board" ELSE "update_square", "", <<>>, NoError, <<>>, b)

Init ==
    \E b \in {NewBoard} \cup Positions :
        /\ Is(b)
        /\ last = Built(b)
        /\ pending = <<>>
        /\ calls = 0

\* the moves a caller requests for the piece on square: those the engine
\* itself generates (a plain and, on the promotion rank, a queening one)
Requests(self, square) ==
    IF possible_moves_raises(self, square) THEN {} ELSE candidate_moves(self, square)

\* a caller validates a move with is_valid and, when accepted, executes it
\* with Board.move (is_valid rejects the moves of every other color, so the
\* pieces of the color to move are the ones tried)
BoardMove ==
    /\ last.raised = NoError
    /\ pending = <<>>
    /\ calls < MaxCalls
    /\ Len(move_stack) < MaxDepth
    /\ \E i \in {j \in 1..256 : layout[j].color = turn} :
          \E m0 \in Requests(Self, get_square(Self, i)) :
             \E r \in {is_valid(Self, m0, FALSE, FALSE)} :
                /\ r.ok
                /\ \E m \in {[m0 EXCEPT !.castling = r.castling, !.checks = r.checks]} :
                      \E a \in {move(Self, m)} :
                         /\ Becomes(a.board)
                         /\ last' = Called("move", last.call, <<m>>, a.raised, <<>>, Self)
    /\ calls' = calls + 1
    /\ UNCHANGED pending

\* Board.pop
BoardPop ==
    /\ last.raised = NoError
    /\ pending = <<>>
    /\ calls < MaxCalls
    /\ \E u \in {pop(Self)} :
          /\ Becomes(u.board)
          /\ last' = Called("pop", last.call, last.args, u.raised,
                            IF u.raised # NoError THEN <<>> ELSE <<u.returned>>, last.before)
    /\ calls' = calls + 1
    /\ UNCHANGED pending

Next == BoardMove \/ BoardPop

Spec == Init /\ [][Next]_vars

\* ------------------------------------------------------------- the queries
\* the cells a caller asks is_valid to move from: those holding a piece and
\* the four cells beside the fortress walls
Sources(b) ==
    {i \in 1..256 : b.layout[i] \notin {Absent, NoPiece}}
        \cup {pos_stoi(pos_rot90(<<ColF, 3>>, n)) : n \in 0..3}

\* the promotions a caller asks for with a move from cell i: none, or a queen
\* of the color of the piece
Promotions(b, i) ==
    {NoPiece} \cup (IF b.layout[i] = NoPiece THEN {} ELSE {Piece("queen", b.layout[i].color)})

\* a board in progress and a query about it: is_valid of a move between two
\* cells, is_mate or possible_legal_moves_color of a color, or possible_moves
\* of a cell that holds a piece
InitQuery ==
    \E b \in {NewBoard} \cup Positions :
        /\ Is(b)
        /\ last = Built(b)
        /\ calls = 0
        /\ \/ /\ b # NewBoard
              /\ \E i \in Sources(b), j \in 1..256, ignore_turn \in BOOLEAN, ignore_check \in BOOLEAN :
                    \E promotion \in Promotions(b, i) :
                       pending = <<"is_valid",
                                   Move(get_square(b, i), get_square(b, j), promotion),
                                   ignore_turn, ignore_check>>
           \/ \E color \in ColorSet : pending = <<"is_mate", color>>
           \/ \E color \in ColorSet : pending = <<"possible_legal_moves_color", color>>
           \/ \E i \in {k \in 1..256 : b.layout[k] \notin {Absent, NoPiece}} :
                 pending = <<"possible_moves", get_square(b, i)>>
           \/ \E color \in ColorSet :
                 pending = <<"check_check", get_kings(b, {})[color]>>

\* Board.is_valid
BoardIsValid ==
    /\ pending # <<>>
    /\ pending[1] = "is_valid"
    /\ \E r \in {is_valid(Self, pending[2], pending[3], pending[4])} :
          /\ layout' = r.layout
          /\ last' = Called("is_valid", last.call, Tail(pending), r.raised,
                            IF r.raised # NoError THEN <<>>
                            ELSE <<r.ok, IF r.ok THEN r.checks ELSE r.msg>>, Self)
    /\ pending' = <<>>
    /\ calls' = calls + 1
    /\ UNCHANGED <<turn, graveyard, castling_rights, checked, frozen, winner, move_stack>>

\* Board.is_mate
BoardIsMate ==
    /\ pending # <<>>
    /\ pending[1] = "is_mate"
    /\ \E f \in {is_mate_failure(Self, pending[2])} :
          /\ layout' = f.layout
          /\ last' = Called("is_mate", last.call, Tail(pending), f.raised,
                            IF f.raised # NoError THEN <<>> ELSE <<is_mate(Self, pending[2])>>,
                            Self)
    /\ pending' = <<>>
    /\ calls' = calls + 1
    /\ UNCHANGED <<turn, graveyard, castling_rights, checked, frozen, winner, move_stack>>

\* Move.possible_legal_moves_color; the list it returns is kept as the set
\* of its entries (two entries of the list never agree in every field)
MoveLegalMoves ==
    /\ pending # <<>>
    /\ pending[1] = "possible_legal_moves_color"
    /\ \E f \in {possible_legal_moves_color_failure(Self, pending[2])} :
          /\ layout' = f.layout
          /\ last' = Called("possible_legal_moves_color", last.call, Tail(pending), f.raised,
                            IF f.raised # NoError THEN <<>>
                            ELSE <<possible_legal_moves_color(Self, pending[2])>>,
                            Self)
    /\ pending' = <<>>
    /\ calls' = calls + 1
    /\ UNCHANGED <<turn, graveyard, castling_rights, checked, frozen, winner, move_stack>>

\* Move.possible_moves; the Squares of the list are kept by their positions
MovePossibleMoves ==
    /\ pending # <<>>
    /\ pending[1] = "possible_moves"
    /\ last' = Called("possible_moves", last.call, Tail(pending),
                      IF possible_moves_raises(Self, pending[2]) THEN AttributeError
                      ELSE NoError,
                      IF possible_moves_raises(Self, pending[2]) THEN <<>>
                      ELSE <<possible_moves(Self, pending[2])>>,
                      Self)
    /\ pending' = <<>>
    /\ calls' = calls + 1
    /\ UNCHANGED <<turn, graveyard, castling_rights, checked, frozen, layout, winner,
                   move_stack>>

\* Move.check_check
MoveCheckCheck ==
    /\ pending # <<>>
    /\ pending[1] = "check_check"
    /\ last' = Called("check_check", last.call, Tail(pending), NoError,
                      <<check_check(Self, pending[2])>>, Self)
    /\ pending' = <<>>
    /\ calls' = calls + 1
    /\ UNCHANGED <<turn, graveyard, castling_rights, checked, frozen, layout, winner, move_stack>>

NextQuery ==
    BoardIsValid \/ BoardIsMate \/ MoveLegalMoves \/ MovePossibleMoves \/ MoveCheckCheck

SpecQuery == InitQuery /\ [][NextQuery]_vars

\* --------------------------------------------------------- Board.next_turn
\* every piece is stuck: each king stands between two pawns of its color on
\* the edge its pawns walk to, three more pawns behind them
StuckPlacement ==
    {<<<<ColB, 1>>, Piece("king", "white")>>, <<<<ColA, 1>>, Piece("pawn", "white")>>,
     <<<<ColC, 1>>, Piece("pawn", "white")>>, <<<<ColA, 2>>, Piece("pawn", "white")>>,
     <<<<ColB, 2>>, Piece("pawn", "white")>>, <<<<ColC, 2>>, Piece("pawn", "white")>>,
     <<<<ColO, 16>>, Piece("king", "grey")>>, <<<<ColN, 16>>, Piece("pawn", "grey")>>,
     <<<<ColP, 16>>, Piece("pawn", "grey")>>, <<<<ColN, 15>>, Piece("pawn", "grey")>>,
     <<<<ColO, 15>>, Piece("pawn", "grey")>>, <<<<ColP, 15>>, Piece("pawn", "grey")>>,
     <<<<ColA, 15>>, Piece("king", "brown")>>, <<<<ColA, 14>>, Piece("pawn", "brown")>>,
     <<<<ColA, 16>>, Piece("pawn", "brown")>>, <<<<ColB, 14>>, Piece("pawn", "brown")>>,
     <<<<ColB, 15>>, Piece("pawn", "brown")>>, <<<<ColB, 16>>, Piece("pawn", "brown")>>,
     <<<<ColP, 2>>, Piece("king", "black")>>, <<<<ColP, 1>>, Piece("pawn", "black")>>,
     <<<<ColP, 3>>, Piece("pawn", "black")>>, <<<<ColO, 1>>, Piece("pawn", "black")>>,
     <<<<ColO, 2>>, Piece("pawn", "black")>>, <<<<ColO, 3>>, Piece("pawn", "black")>>}

\* the boards next_turn is called on: a new board and the boards in
\* progress, the turn with any color that is not frozen (any color at all
\* once every color is frozen)
TurnPositions ==
    {[b EXCEPT !.turn = c] :
        <<b, c>> \in {q \in ({NewBoard, Arranged(StuckPlacement, "white")} \cup Positions)
                              \X ColorSet :
                        ~q[1].frozen[q[2]] \/ \A k \in ColorSet : q[1].frozen[k]}}

InitTurn ==
    \E b \in TurnPositions :
        /\ Is(b)
        /\ last = Built(b)
        /\ pending = <<>>
        /\ calls = 0

\* the values Board.move and Board.pop pass as jumps
Jumps == {1, -1}

\* Board.next_turn(jumps); when the recursion never ends the turn is left on
\* the color it had reached when the interpreter gave up
BoardNextTurn ==
    /\ last.raised = NoError
    /\ calls < MaxCalls
    /\ \E jumps \in Jumps :
          \E t \in {next_turn(frozen, turn, jumps, 1)} :
             /\ IF t = "" THEN turn' \in ColorSet ELSE turn' = t
             /\ last' = Called("next_turn", last.call, <<jumps>>,
                               IF t = "" THEN RecursionError ELSE NoError, <<>>, Self)
    /\ calls' = calls + 1
    /\ UNCHANGED <<graveyard, castling_rights, checked, frozen, layout, winner, move_stack,
                   pending>>

NextTurn == BoardNextTurn

SpecTurn == InitTurn /\ [][NextTurn]_vars

\* --------------------------------------------- Square on position strings
\* A position string is kept as the sequence of its characters: "F03" is
\* <<"F", "0", "3">>.
Letters == <<"A", "B", "C", "D", "E", "F", "G", "H", "I", "J", "K", "L", "M", "N", "O", "P">>

LowerLetters == <<"a", "b", "c", "d", "e", "f", "g", "h", "i", "j", "k", "l", "m", "n", "o", "p">>

Digits == <<"0", "1", "2", "3", "4", "5", "6", "7", "8", "9">>

\* str.upper() of one character
upper(ch) ==
    IF \E k \in 1..16 : LowerLetters[k] = ch
    THEN Letters[CHOOSE k \in 1..16 : LowerLetters[k] = ch]
    ELSE ch

\* ord(ch) - ord("A")
ord(ch) == (CHOOSE k \in 1..16 : Letters[k] = ch) - 1

\* chr(ord("A") + n)
chr(n) == Letters[n + 1]

\* int(s) of a string of digits
RECURSIVE int(_)
int(s) ==
    IF s = <<>> THEN 0
    ELSE int(SubSeq(s, 1, Len(s) - 1)) * 10
         + (CHOOSE k \in 0..9 : Digits[k + 1] = s[Len(s)])

\* str(n) of a natural number
RECURSIVE str(_)
str(n) == IF n < 10 THEN <<Digits[n + 1]>> ELSE str(n \div 10) \o <<Digits[(n % 10) + 1]>>

\* s.zfill(width)
RECURSIVE zfill(_, _)
zfill(s, width) == IF Len(s) >= width THEN s ELSE zfill(<<"0">> \o s, width)

\* Square.pos_stoi
Square_pos_stoi(pos) == ord(upper(pos[1])) + (int(Tail(pos)) - 1) * 16 + 1

\* a pos_itos that does not pad the row
pos_itos_unpadded(pos) ==
    <<chr((pos - 1) % 16)>> \o str((pos \div 16) + (IF pos % 16 # 0 THEN 1 ELSE 0))

\* Square.pos_itos
Square_pos_itos(pos) ==
    <<chr((pos - 1) % 16)>> \o zfill(str((pos \div 16) + (IF pos % 16 # 0 THEN 1 ELSE 0)), 2)

\* a step to the next column instead of a quarter turn
rot90_shift(pos) == <<chr((ord(upper(pos[1])) + 1) % 16)>> \o zfill(Tail(pos), 2)

\* the position pos_rot90 hands to its recursive call
rot90_turn(pos) ==
    <<chr(ColP - int(Tail(pos)) + 1)>> \o zfill(str(ord(upper(pos[1])) + 1), 2)

\* Square.pos_rot90 never returns: times - 1 does not reach 0 from below,
\* and the recursion ends with RecursionError
pos_rot90_raises(times) == times < 0

\* Square.pos_rot90, times >= 0
RECURSIVE Square_pos_rot90(_, _)
Square_pos_rot90(pos, times) ==
    IF times = 0 THEN <<pos[1]>> \o zfill(Tail(pos), 2)
    ELSE Square_pos_rot90(rot90_turn(pos), times - 1)

\* the position strings a caller passes: a column letter of either case and
\* a row number, padded to two digits or not
PositionStrings ==
    {<<l>> \o zfill(str(r), w) :
        <<l, r, w>> \in (Range(Letters) \cup Range(LowerLetters)) \X (1..16) \X (1..2)}

\* a new board and a call of one of the conversions
InitSquare ==
    /\ Is(NewBoard)
    /\ last = Built(NewBoard)
    /\ calls = 0
    /\ \/ \E pos \in PositionStrings : pending = <<"pos_stoi", pos>>
       \/ \E pos \in 1..256 : pending = <<"pos_itos", pos>>
       \/ \E pos \in PositionStrings, times \in (-MaxTimes)..MaxTimes :
             pending = <<"pos_rot90", pos, times>>

\* the call of pending returns the value (<<>> when it raises)
Converted(raised, value) ==
    /\ last' = Called(pending[1], last.call, Tail(pending), raised, value, Self)
    /\ pending' = <<>>
    /\ calls' = calls + 1
    /\ UNCHANGED <<turn, graveyard, castling_rights, checked, frozen, layout, winner,
                   move_stack>>

SquarePosStoi ==
    /\ pending # <<>>
    /\ pending[1] = "pos_stoi"
    /\ Converted(NoError, <<Square_pos_stoi(pending[2])>>)

SquarePosItos ==
    /\ pending # <<>>
    /\ pending[1] = "pos_itos"
    /\ Converted(NoError, <<Square_pos_itos(pending[2])>>)

SquarePosRot90 ==
    /\ pending # <<>>
    /\ pending[1] = "pos_rot90"
    /\ IF pos_rot90_raises(pending[3]) THEN Converted(RecursionError, <<>>)
       ELSE Converted(NoError, <<Square_pos_rot90(pending[2], pending[3])>>)

NextSquare == SquarePosStoi \/ SquarePosItos \/ SquarePosRot90

SpecSquare == InitSquare /\ [][NextSquare]_vars

\* ---------------------------------------------------------------- claims
\* the slot of the cell in column col and row rw
Cell(col, rw) == pos_stoi(<<col, rw>>)

\* the number of pieces of a type and color on the board
Count(type, color) == Cardinality({i \in 1..256 : layout[i] = Piece(type, color)})

\* the number of pieces on the board
OnBoard == Cardinality({i \in 1..256 : layout[i] \notin {Absent, NoPiece}})

\* the last call was a Board.pop made right after a Board.move that returned
PopAfterMove == last.call = "pop" /\ last.prev = "move"

\* the Move of the last Board.move
Moved == last.args[1]

\* C1: after Board.move(m) of a move is_valid accepted followed by
\* Board.pop(), pop has returned True and the layout, the graveyard,
\* castling_rights and move_stack are what they were before move(m).
C1_PopRestoresBoard ==
    PopAfterMove =>
        /\ last.raised = NoError
        /\ last.returned = <<TRUE>>
        /\ layout = last.before.layout
        /\ graveyard = last.before.graveyard
        /\ castling_rights = last.before.castling_rights
        /\ move_stack = last.before.move_stack

\* C2: after Board.move(m) of an accepted move followed by Board.pop(), the
\* checked flags and the frozen flags of every color are what they were
\* before move(m).
C2_PopRestoresFlags ==
    PopAfterMove =>
        /\ checked = last.before.checked
        /\ frozen = last.before.frozen

\* C3: after Board.move(m) of an accepted move followed by Board.pop(), turn
\* is the color that made the move.
C3_PopRestoresTurn ==
    PopAfterMove =>
        /\ turn = last.before.turn
        /\ turn = Moved.from_square.piece_at.color

\* C4: in every state reached by Board.move of accepted moves each color has
\* exactly one king on the board, and no accepted move has a king on its
\* destination cell.
C4_OneKingEach ==
    /\ \A c \in ColorSet : Count("king", c) = 1
    /\ last.call = "move" => Moved.to_square.piece_at.type # "king"

\* C5: after every Board.move call turn is a color that is not frozen
\* whenever some color is not frozen; and a color that was frozen before the
\* call and still is does not get the turn through another color's move.
C5_TurnSkipsFrozen ==
    last.call = "move" =>
        /\ (\E c \in ColorSet : ~frozen[c]) => ~frozen[turn]
        /\ \A c \in ColorSet :
              (last.before.frozen[c] /\ frozen[c] /\ Moved.from_square.piece_at.color # c)
                  => turn # c

\* C5 happens: a move froze the next color in the cycle and the turn went
\* past it
C5_Skipped ==
    /\ last.call = "move"
    /\ last.raised = NoError
    /\ frozen[ColorAt(ColorIndex(last.before.turn) + 1)]
    /\ turn = ColorAt(ColorIndex(last.before.turn) + 2)

\* the board is as Board() left it
Fresh == last.call = "Board" /\ calls = 0

\* the flags and lists of a board as Board() leaves them
FreshFields ==
    /\ \A c \in ColorSet : castling_rights[c] = <<TRUE, TRUE>>
    /\ \A c \in ColorSet : ~checked[c] /\ ~frozen[c]
    /\ DOMAIN checked = ColorSet
    /\ winner = NoWinner
    /\ graveyard = <<>>
    /\ move_stack = <<>>
    /\ turn = COLORS[1]
    /\ turn = "white"

\* C7 as stated: Board() places 1 king, 1 queen, 2 rooks, 2 bishops,
\* 2 knights and 8 pawns per color, 64 pieces in all; every castling right
\* is true, no color is checked or frozen, winner is unset, the graveyard and
\* the move history are empty and turn is white.
C7_SixtyFourPieces ==
    Fresh =>
        /\ \A c \in ColorSet :
              /\ Count("king", c) = 1 /\ Count("queen", c) = 1
              /\ Count("rook", c) = 2 /\ Count("bishop", c) = 2 /\ Count("knight", c) = 2
              /\ Count("pawn", c) = 8
        /\ OnBoard = 64
        /\ FreshFields

\* C7 amended: Board() places 1 king, 1 queen, 3 rooks, 3 bishops, 3 knights
\* and 8 pawns per color (a rook, a bishop and a knight of each color stand
\* in a fortress), 76 pieces in all; every castling right is true, no color
\* is checked or frozen, winner is unset, the graveyard and the move history
\* are empty and turn is white.
C7_SeventySixPieces ==
    Fresh =>
        /\ \A c \in ColorSet :
              /\ Count("king", c) = 1 /\ Count("queen", c) = 1
              /\ Count("rook", c) = 3 /\ Count("bishop", c) = 3 /\ Count("knight", c) = 3
              /\ Count("pawn", c) = 8
        /\ OnBoard = 76
        /\ FreshFields

\* C7 happens: a board fresh from Board(), with the fortress pieces of the
\* first color on it
C7_FreshBoard ==
    /\ Fresh
    /\ Cardinality({i \in 1..256 : layout[i] \notin {Absent, NoPiece}
                                   /\ layout[i].color = COLORS[1]}) > 16

\* the arguments of the last Board.is_valid
Asked == last.args[1]

AskedIgnoreTurn == last.args[2]

AskedIgnoreCheck == last.args[3]

\* some move of a piece of color, to any cell and with or without a queen
\* to promote to, that is_valid accepts with the check simulation applied
\* and the turn ignored
HasLegalMove(b, color) ==
    \E i \in {k \in 1..256 : b.layout[k].color = color} :
       \E j \in 1..256 : \E promotion \in Promotions(b, i) :
          is_valid(b, Move(get_square(b, i), get_square(b, j), promotion), TRUE, FALSE).ok

\* C6: Board.is_mate(color) returns 0 exactly when color has a legal move (a
\* move of one of its pieces that is_valid accepts with the check simulation
\* applied, turn ignored), 1 when it has none and checked[color] is true,
\* 2 when it has none and checked[color] is false.
C6_MateClassification ==
    (last.call = "is_mate" /\ last.raised = NoError) =>
        last.returned = <<IF HasLegalMove(last.before, last.args[1]) THEN 0
                          ELSE IF last.before.checked[last.args[1]] THEN 1
                          ELSE 2>>

\* the reason of the first check, in the order of C8, that the move fails
\* on board b; "" when it passes them all
FirstFailing(b, m, ignore_turn, ignore_check) ==
    LET from  == m.from_square
        to    == m.to_square
        color == from.piece_at.color
        mate  == get_teammate(color)
        path  == Range(check_path(b, m, castling_of(m)))
        after(pos, c) == DictGet(simulated_checks(b, m, pos), c, TRUE)
    IN  IF to = NoSquare THEN SquareToOutOfBounds
        ELSE IF from.piece_at = NoPiece THEN SquareFromNoPiece
        ELSE IF ~ignore_turn /\ color # b.turn THEN SquareFromNotYourPiece
        ELSE IF from.position = to.position THEN SquareFromAndToSame
        ELSE IF to.piece_at.color \in {color, mate} THEN FriendlyFire
        ELSE IF walls_in_the_way(from.position, to.position) THEN WallsInTheWay
        ELSE IF m.promotion # NoPiece /\ from.piece_at.type # "pawn" THEN PromotionFromNonPawn
        ELSE IF m.promotion # NoPiece /\ to.position \notin get_pawn_promotion_rank(color)
             THEN PromotionOutOfBounds
        ELSE IF to.piece_at # NoPiece /\ b.frozen[to.piece_at.color] THEN TargetFrozen
        ELSE IF to.position \notin Range(possible_moves(b, from)) THEN SquareToIllegal
        ELSE IF ~ignore_check /\ \E pos \in path : after(pos, color) THEN CheckmateYourself
        ELSE IF ~ignore_check /\ ~b.checked[mate] /\ \E pos \in path : after(pos, mate)
             THEN CheckmateTeammate
        ELSE ""

\* C8: Board.is_valid returns, as data, the reason of the first check that
\* fails, the checks taken in the order: destination absent, source without
\* a piece, piece not of the color to move (unless ignore_turn), source
\* equal to destination, own-team piece on the destination, fortress wall,
\* promotion by a non-pawn, promotion off the promotion rank, destination
\* piece of a frozen color, destination not in possible_moves, own king
\* checked, unchecked teammate's king checked (the last two unless
\* ignore_check); it accepts the move when none fails.
C8_FirstFailingCheck ==
    last.call = "is_valid" =>
        LET reason == FirstFailing(last.before, Asked, AskedIgnoreTurn, AskedIgnoreCheck)
        IN  /\ last.raised = NoError
            /\ last.returned[1] = (reason = "")
            /\ reason # "" => last.returned = <<FALSE, reason>>

\* the knight jump from F03 to D02 and its three rotations
WallJumps ==
    {<<pos_stoi(pos_rot90(<<ColF, 3>>, n)), pos_stoi(pos_rot90(<<ColD, 2>>, n))>> : n \in 0..3}

\* the last call was Board.is_valid of one of the jumps of WallJumps
AskedWallJump ==
    /\ last.call = "is_valid"
    /\ Asked.to_square # NoSquare
    /\ <<Asked.from_square.position, Asked.to_square.position>> \in WallJumps

\* C9 as stated: a move from F03 to D02, or one of its three rotations, is
\* rejected by Board.is_valid with WallsInTheWay whatever the turn and
\* whatever stands on the source cell.
C9_WallWhateverTheTurn ==
    AskedWallJump => (last.raised = NoError /\ last.returned = <<FALSE, WallsInTheWay>>)

\* the move passes the checks is_valid makes before it looks at the walls
BeforeWalls(b, m, ignore_turn) ==
    /\ m.from_square.piece_at # NoPiece
    /\ ignore_turn \/ m.from_square.piece_at.color = b.turn
    /\ m.to_square.piece_at.color \notin get_teams(m.from_square.piece_at.color)[1]

\* C9 amended: a move from F03 to D02, or one of its three rotations, is
\* always rejected by Board.is_valid, and with WallsInTheWay exactly when
\* the source cell holds a piece, the piece is of the color to move or
\* ignore_turn is set, and the destination holds no piece of the mover's
\* team; otherwise the reason is that of the earlier check that fails.
C9_WallAfterEarlierChecks ==
    AskedWallJump =>
        /\ last.raised = NoError
        /\ last.returned[1] = FALSE
        /\ BeforeWalls(last.before, Asked, AskedIgnoreTurn) <=> last.returned[2] = WallsInTheWay
        /\ last.returned[2] \in {WallsInTheWay, SquareFromNoPiece, SquareFromNotYourPiece,
                                 FriendlyFire}

\* C9 happens: a piece of the color to move was asked to jump over the wall
\* and was refused for the wall
C9_WallRefused ==
    /\ AskedWallJump
    /\ ~AskedIgnoreTurn
    /\ Asked.from_square.piece_at.color = last.before.turn
    /\ last.returned = <<FALSE, WallsInTheWay>>

\* the cells strictly between two cells of one row, column or diagonal
Between(a, b) ==
    LET p  == pos_itos(a)
        q  == pos_itos(b)
        dx == q[1] - p[1]
        dy == q[2] - p[2]
        n  == IF dx # 0 THEN (IF dx < 0 THEN -dx ELSE dx) ELSE (IF dy < 0 THEN -dy ELSE dy)
    IN  {pos_stoi(<<p[1] + (k * dx) \div n, p[2] + (k * dy) \div n>>) : k \in 1..(n - 1)}

\* cells a and b are on one row or column (diagonal = FALSE), on one
\* diagonal (diagonal = TRUE)
Aligned(a, b, diagonal) ==
    LET dx == pos_itos(b)[1] - pos_itos(a)[1]
        dy == pos_itos(b)[2] - pos_itos(a)[2]
    IN  /\ a # b
        /\ IF diagonal THEN dx = dy \/ dx = -dy ELSE dx = 0 \/ dy = 0

\* once the king of color has left cell from, cell to lies on an
\* unobstructed line of an enemy rook, bishop or queen of a non-frozen color
OnSliderLine(b, color, from, to) ==
    \E a \in 1..256 :
       /\ a \notin {from, to}
       /\ b.layout[a].color \in get_teams(color)[2]
       /\ ~b.frozen[b.layout[a].color]
       /\ \/ b.layout[a].type \in {"rook", "queen"} /\ Aligned(a, to, FALSE)
          \/ b.layout[a].type \in {"bishop", "queen"} /\ Aligned(a, to, TRUE)
       /\ \A c \in Between(a, to) : c = from \/ b.layout[c] = NoPiece

\* the last call was Board.is_valid, with the check simulation, of a step of
\* a king to a neighbouring cell on the line of an enemy slider, and the
\* move passes the checks made before the simulation
AskedStepOntoLine ==
    /\ last.call = "is_valid"
    /\ ~AskedIgnoreCheck
    /\ Asked.to_square # NoSquare
    /\ Asked.from_square.piece_at.type = "king"
    /\ LET p == pos_itos(Asked.from_square.position)
           q == pos_itos(Asked.to_square.position)
       IN  /\ p # q
           /\ q[1] - p[1] \in {-1, 0, 1}
           /\ q[2] - p[2] \in {-1, 0, 1}
    /\ is_valid(last.before, Asked, AskedIgnoreTurn, TRUE).ok
    /\ OnSliderLine(last.before, Asked.from_square.piece_at.color,
                    Asked.from_square.position, Asked.to_square.position)

\* C10: a one-step move of a king of the color to move (of any color with
\* ignore_turn) that passes the earlier checks of is_valid and ends on a cell
\* on an unobstructed orthogonal line of an enemy rook or queen, or diagonal
\* line of an enemy bishop or queen, of a non-frozen color is rejected by
\* Board.is_valid (ignore_check false) with CheckmateYourself, also when the
\* king steps along the attacker's line away from it.
C10_KingStepsOntoLine ==
    AskedStepOntoLine => (last.raised = NoError /\ last.returned = <<FALSE, CheckmateYourself>>)

\* C10 happens: the king of the color to move, attacked by a rook, was asked
\* to step away from the rook along its line and was refused
C10_SteppedAway ==
    /\ AskedStepOntoLine
    /\ ~AskedIgnoreTurn
    /\ Asked.from_square.piece_at.color = last.before.turn
    /\ last.before.checked[last.before.turn]
    /\ \E a \in 1..256 :
          /\ last.before.layout[a].type = "rook"
          /\ Aligned(a, Asked.from_square.position, FALSE)
          /\ Asked.from_square.position \in Between(a, Asked.to_square.position)
    /\ last.returned = <<FALSE, CheckmateYourself>>


\* the last call was Move.possible_legal_moves_color and it returned a list
Listed == last.call = "possible_legal_moves_color" /\ last.raised = NoError

\* the entry is a move of a pawn to a cell of its promotion rank
OntoRank(m) ==
    /\ m.from_square.piece_at.type = "pawn"
    /\ m.to_square.position \in get_pawn_promotion_rank(m.from_square.piece_at.color)

\* the entries of the returned list between the same two cells as m
EntriesLike(m) ==
    {o \in last.returned[1] : o.from_square = m.from_square /\ o.to_square = m.to_square}

\* C11 as stated: Move.possible_legal_moves_color yields, for a pawn and a
\* destination on its promotion rank, two distinct entries, and none of them
\* has promotion unset.
C11_OnlyPromotingEntries ==
    Listed =>
        \A m \in last.returned[1] :
           OntoRank(m) => (Cardinality(EntriesLike(m)) = 2 /\ m.promotion # NoPiece)

\* C11 amended: Move.possible_legal_moves_color yields, for a pawn and a
\* destination on its promotion rank, exactly two entries: one with promotion
\* unset and one that promotes to a queen of the pawn's color.
C11_PlainAndQueenEntries ==
    Listed =>
        \A m \in last.returned[1] :
           OntoRank(m) =>
              /\ Cardinality(EntriesLike(m)) = 2
              /\ \E o \in EntriesLike(m) : o.promotion = NoPiece
              /\ \E o \in EntriesLike(m) :
                    o.promotion = Piece("queen", m.from_square.piece_at.color)

\* C11 happens: the list holds the entries of a pawn stepping onto its
\* promotion rank and of the same pawn capturing onto it
C11_PawnReachesRank ==
    /\ Listed
    /\ \E m \in last.returned[1], o \in last.returned[1] :
          /\ OntoRank(m) /\ OntoRank(o)
          /\ m.from_square = o.from_square
          /\ m.to_square.piece_at = NoPiece
          /\ o.to_square.piece_at # NoPiece


\* the position strings of the 16x16 grid: column A-P, row 01-16
GridPositions == {<<Letters[x + 1]>> \o zfill(str(y), 2) : <<x, y>> \in (ColA..ColP) \X (1..16)}

\* the cell named by a position string exists on the board
Existing(pos) == Square_pos_stoi(pos) \notin AbsentSlots

\* the last call was Square.pos_rot90 of a position of the grid
Rotated == last.call = "pos_rot90" /\ last.args[1] \in GridPositions

\* C12: Square.pos_rot90 satisfies rotate(p, 4) = p and
\* rotate(rotate(p, 1), 1) = rotate(p, 2) for every position p of the 16x16
\* grid, and rotate(., 1) is a bijection of the grid that maps existing cells
\* to existing cells and absent cells to absent cells.
C12_RotationGroup ==
    /\ (Rotated /\ last.args[2] = 4) => last.returned = <<last.args[1]>>
    /\ (Rotated /\ last.args[2] = 1) =>
          /\ last.raised = NoError
          /\ Square_pos_rot90(last.returned[1], 1) = Square_pos_rot90(last.args[1], 2)
          /\ last.returned[1] \in GridPositions
          /\ Existing(last.returned[1]) <=> Existing(last.args[1])
          /\ \A q \in GridPositions :
                Square_pos_rot90(q, 1) = last.returned[1] => q = last.args[1]
          /\ \E q \in GridPositions : Square_pos_rot90(q, 1) = last.args[1]

\* C12 happens: a cell of a fortress was turned by a quarter, and four times
C12_Turned ==
    /\ Rotated
    /\ last.args[1] = <<"O", "0", "1">>
    /\ \/ last.args[2] = 1 /\ last.returned = <<<<"P", "1", "5">>>>
       \/ last.args[2] = 4 /\ last.returned = <<<<"O", "0", "1">>>>

\* C13: Square.pos_stoi and Square.pos_itos are mutual inverses: for every
\* position p with column A-P and row 01-16, pos_stoi(p) is
\* column + (row - 1) * 16 + 1 and pos_itos(pos_stoi(p)) = p, and for every
\* index i in 1..256, pos_stoi(pos_itos(i)) = i.
C13_RoundTrip ==
    /\ (last.call = "pos_stoi" /\ last.args[1] \in GridPositions) =>
          /\ last.raised = NoError
          /\ \E x \in ColA..ColP, y \in 1..16 :
                /\ last.args[1] = <<Letters[x + 1]>> \o zfill(str(y), 2)
                /\ last.returned = <<x + (y - 1) * 16 + 1>>
          /\ Square_pos_itos(last.returned[1]) = last.args[1]
    /\ last.call = "pos_itos" =>
          /\ last.raised = NoError
          /\ last.returned[1] \in GridPositions
          /\ Square_pos_stoi(last.returned[1]) = last.args[1]

\* C13 happens: the last index of a row was converted to its position, a
\* position with a one-digit row to its index
C13_Converted ==
    \/ last.call = "pos_itos" /\ last.args[1] = 48 /\ last.returned = <<<<"P", "0", "3">>>>
    \/ last.call = "pos_stoi" /\ last.args[1] = <<"F", "0", "3">> /\ last.returned = <<38>>


\* the last call was next_turn(-1), the step back that Board.pop makes, and
\* it returned
SteppedBack == last.call = "next_turn" /\ last.args = <<-1>> /\ last.raised = NoError

\* the color k positions before the turn the last call started from
Before(k) == ColorAt(ColorIndex(last.before.turn) - k)

C15_NextTurnReturns ==
    last.call = "next_turn" => (last.raised = NoError /\ turn \in ColorSet)

\* C16: Square.pos_rot90(p, times) with a negative times returns the
\* position pos_rot90(p, times mod 4) returns.
C16_NegativeTimes ==
    (Rotated /\ last.args[2] < 0) =>
        /\ last.raised = NoError
        /\ last.returned = <<Square_pos_rot90(last.args[1], last.args[2] % 4)>>


\* the last call was Board.is_valid of a move of a piece other than a king,
\* a color of the other team being frozen, and the move passes the checks
\* made before possible_moves is called
AskedAgainstFrozen ==
    /\ last.call = "is_valid"
    /\ Asked.to_square # NoSquare
    /\ Asked.from_square # NoSquare
    /\ Asked.from_square.piece_at # NoPiece
    /\ Asked.from_square.piece_at.type # "king"
    /\ \E c \in get_teams(Asked.from_square.piece_at.color)[2] : last.before.frozen[c]
    /\ FirstFailing(last.before, Asked, AskedIgnoreTurn, TRUE) \in {"", SquareToIllegal}

\* C17: when a color is frozen, Move.possible_moves for a piece of the other
\* team completes, so that Board.is_valid returns a result: it accepts the
\* move or names the check that fails, and no cell holding a piece of the
\* frozen color is accepted as a capture.
C17_FrozenEnemyAnswered ==
    AskedAgainstFrozen =>
        /\ last.raised = NoError
        /\ last.returned[1] =>
              \/ Asked.to_square.piece_at = NoPiece
              \/ ~last.before.frozen[Asked.to_square.piece_at.color]

\* the last call was Board.is_valid and it returned
Answered == last.call = "is_valid" /\ last.raised = NoError

\* C18: Board.is_valid, accepting or rejecting, for every combination of
\* ignore_turn and ignore_check, leaves the board as it was when it returns:
\* the piece on every cell, turn, castling_rights, checked, frozen, graveyard,
\* winner and move_stack.
C18_IsValidKeepsBoard ==
    Answered =>
        /\ \A i \in 1..256 : layout[i] = last.before.layout[i]
        /\ turn = last.before.turn
        /\ castling_rights = last.before.castling_rights
        /\ checked = last.before.checked
        /\ frozen = last.before.frozen
        /\ graveyard = last.before.graveyard
        /\ winner = last.before.winner
        /\ move_stack = last.before.move_stack

\* C18 happens: a castling was accepted after the simulation of the cells
\* the king crosses, and a move was refused for the check of the mover's king
C18_SimulatedAndBack ==
    /\ Answered
    /\ ~AskedIgnoreCheck
    /\ Asked.from_square.piece_at # NoPiece
    /\ \/ castling_of(Asked) # NoCastling /\ last.returned[1] = TRUE
       \/ last.returned = <<FALSE, CheckmateYourself>>

\* the last call was a Board.move that returned
MoveReturned == last.call = "move" /\ last.raised = NoError

\* the castling rights differ from those before the last move in the right
\* of color for side (1 kingside, 2 queenside) alone
OneRightChanged(color, side) ==
    \A c \in ColorSet, s \in 1..2 :
       castling_rights[c][s] # last.before.castling_rights[c][s] => (c = color /\ s = side)

\* C19: after Board.move of a move flagged as castling the king stands two
\* cells from its home cell toward the chosen side, the rook of that side's
\* corner stands on the cell the king crossed, and the mover's right for that
\* side alone has become False; after a move not flagged as castling every
\* right is as before.
C19_CastleMovesKingAndRook ==
    MoveReturned =>
        LET color   == Moved.from_square.piece_at.color
            home    == Moved.from_square.position
            to      == Moved.to_square.position
            side    == IF Moved.castling[1] THEN 1 ELSE 2
            crossed == (home + to) \div 2
            corner  == to + (to - crossed) * side
        IN  IF Moved.castling = NoCastling
            THEN castling_rights = last.before.castling_rights
            ELSE /\ home = pos_stoi(pos_rot90(<<ColC, 8>>, RevIndex(color)))
                 /\ Cardinality(Between(home, to)) = 1
                 /\ layout[to] = Piece("king", color)
                 /\ layout[home] = NoPiece
                 /\ last.before.layout[corner] = Piece("rook", color)
                 /\ layout[crossed] = Piece("rook", color)
                 /\ layout[corner] = NoPiece
                 /\ ~castling_rights[color][side]
                 /\ OneRightChanged(color, side)

\* C20: after Board.move of a move is_valid accepted, checked[c] is true
\* exactly when check_check finds the king of c attacked on the board as it
\* is now, for every color c; after a castling the king of the mover is not
\* attacked.
C20_CheckedMatchesBoard ==
    (MoveReturned /\ ~get_kings_raises(Self, {})) =>
        /\ DOMAIN checked = ColorSet
        /\ \A c \in ColorSet : checked[c] = check_check(Self, get_kings(Self, {})[c])
        /\ Moved.castling # NoCastling =>
              ~check_check(Self, get_kings(Self, {})[Moved.from_square.piece_at.color])


\* the layout Board.move leaves when it executes the move m on board b
LayoutAfter(b, m) ==
    relocate_rook(simulated(b, m, m.to_square.position), castling_of(m),
                  m.from_square.piece_at.color, FALSE)

\* the king of color is attacked once the move m is executed on board b
AttackedAfter(b, m, color) ==
    \E i \in 1..256 :
       /\ LayoutAfter(b, m)[i] = Piece("king", color)
       /\ check_check([b EXCEPT !.layout = LayoutAfter(b, m)], Square(i, Piece("king", color)))

\* the king that castles with the move m on board b is attacked on a cell it
\* crosses
AttackedCrossing(b, m) ==
    \E k \in 1..(Len(check_path(b, m, castling_of(m))) - 1) :
       LET p == check_path(b, m, castling_of(m))[k]
       IN  check_check([b EXCEPT !.layout = simulated(b, m, p)],
                       Square(p, m.from_square.piece_at))

\* the last call was Board.is_valid, with the check simulation, of a move
\* that passes the checks made before the simulation, does not leave the
\* king of the mover attacked, on the cells it crosses when castling
\* included, and leaves the king of the teammate attacked
AskedExposingTeammate ==
    /\ last.call = "is_valid"
    /\ ~AskedIgnoreCheck
    /\ Asked.to_square # NoSquare
    /\ Asked.from_square # NoSquare
    /\ is_valid(last.before, Asked, AskedIgnoreTurn, TRUE).ok
    /\ ~AttackedAfter(last.before, Asked, Asked.from_square.piece_at.color)
    /\ ~AttackedCrossing(last.before, Asked)
    /\ AttackedAfter(last.before, Asked, get_teammate(Asked.from_square.piece_at.color))

\* C21: Board.is_valid (ignore_check false) rejects with CheckmateTeammate
\* every move that passes the earlier checks, does not leave the mover's king
\* attacked (nor attacked on a cell it crosses when castling) and leaves the
\* teammate's king attacked while the teammate's checked flag was false; it
\* accepts such a move when the flag was true.
C21_TeammateExposed ==
    AskedExposingTeammate =>
        /\ last.raised = NoError
        /\ last.returned[1] = last.before.checked[get_teammate(Asked.from_square.piece_at.color)]
        /\ ~last.returned[1] => last.returned[2] = CheckmateTeammate

\* C21 happens: a knight of the color to move that stood between the king
\* of its teammate, not in check, and an enemy rook was asked to leave the
\* line and was refused
C21_ShieldLeft ==
    /\ AskedExposingTeammate
    /\ ~AskedIgnoreTurn
    /\ Asked.from_square.piece_at.type = "knight"
    /\ ~last.before.checked[get_teammate(Asked.from_square.piece_at.color)]
    /\ last.returned = <<FALSE, CheckmateTeammate>>


\* the team of the color that made the last move, and the other team
MoverTeam ==
    IF Moved.from_square.piece_at.color \in {"white", "grey"}
    THEN <<"white", "grey">> ELSE <<"brown", "black">>

OtherTeam ==
    IF Moved.from_square.piece_at.color \in {"white", "grey"}
    THEN <<"brown", "black">> ELSE <<"white", "grey">>

\* C22: Board.move sets winner to the mover's team exactly when, after
\* frozen has been recomputed, both colors of the other team are frozen; in
\* every other case it leaves winner as it was, and winner is unset until
\* the first such move.
C22_WinnerWhenBothFrozen ==
    /\ MoveReturned =>
          winner = IF frozen[OtherTeam[1]] /\ frozen[OtherTeam[2]] THEN MoverTeam
                   ELSE last.before.winner
    /\ (last.call = "move" /\ last.raised # NoError) => winner = last.before.winner
    /\ winner # NoWinner =>
          /\ move_stack # <<>> \/ last.call = "pop"
          /\ winner = MoverTeam

\* C22 happens: a move froze both colors of the other team and the team of
\* the mover was declared the winner
C22_Won ==
    /\ MoveReturned
    /\ last.before.winner = NoWinner
    /\ \A c \in ColorSet : ~last.before.frozen[c]
    /\ frozen[OtherTeam[1]] /\ frozen[OtherTeam[2]]
    /\ winner = <<"white", "grey">>


\* the last call was Move.possible_moves of a cell holding a piece of the
\* type, and it returned the list
Listing(type) ==
    /\ last.call = "possible_moves"
    /\ last.raised = NoError
    /\ last.args[1].piece_at.type = type

\* the cell d is empty or holds a piece of the team that is the enemy of
\* color
Occupiable(b, d, color) ==
    \/ b.layout[d] = NoPiece
    \/ b.layout[d].color \in (ColorSet \ {color, get_teammate(color)})

\* the cells a ray scan from the cell finds: on a row, column or diagonal of
\* the cell, every cell in between empty, the cell itself empty or enemy-held
RayCells(b, from, color) ==
    {d \in 1..256 :
        /\ Aligned(from, d, FALSE) \/ Aligned(from, d, TRUE)
        /\ \A c \in Between(from, d) : b.layout[c] = NoPiece
        /\ Occupiable(b, d, color)}

\* the cells a knight's jump away from the cell, empty or enemy-held
JumpCells(b, from, color) ==
    {d \in 1..256 :
        /\ {(column(d) - column(from)) * (column(d) - column(from)),
             (row(d) - row(from)) * (row(d) - row(from))} = {1, 4}
        /\ Occupiable(b, d, color)}

\* C23 as stated: Move.possible_moves for a queen returns exactly the cells
\* found by scanning the 4 orthogonal and 4 diagonal rays; it contains no
\* cell that is only reachable by a knight's jump.
C23_QueenRaysOnly ==
    Listing("queen") =>
        Range(last.returned[1])
            = RayCells(last.before, last.args[1].position, last.args[1].piece_at.color)

\* C23 amended: Move.possible_moves for a queen returns exactly the cells
\* found by scanning the 4 orthogonal and 4 diagonal rays together with the
\* cells a knight's jump away that are empty or enemy-held; for a knight it
\* returns exactly the latter.
C23_QueenRaysAndJumps ==
    /\ Listing("queen") =>
          Range(last.returned[1])
              = RayCells(last.before, last.args[1].position, last.args[1].piece_at.color)
                \cup JumpCells(last.before, last.args[1].position, last.args[1].piece_at.color)
    /\ Listing("knight") =>
          Range(last.returned[1])
              = JumpCells(last.before, last.args[1].position, last.args[1].piece_at.color)

\* C23 happens: the list of a queen in the open holds cells of its rays and
\* an enemy piece it reaches by a knight's jump alone
C23_QueenJumps ==
    /\ Listing("queen")
    /\ \E d \in Range(last.returned[1]) :
          /\ last.before.layout[d] # NoPiece
          /\ ~Aligned(last.args[1].position, d, FALSE)
          /\ ~Aligned(last.args[1].position, d, TRUE)
    /\ \E d \in Range(last.returned[1]) : Aligned(last.args[1].position, d, TRUE)
    /\ \E d \in Range(last.returned[1]) : Aligned(last.args[1].position, d, FALSE)


\* the corner-arm regions: the block K-P x 1-6 and its three rotations
ArmCells ==
    {Cell(x, y) : <<x, y>> \in ((ColK..ColP) \X (1..6)) \cup ((ColK..ColP) \X (11..16))
                              \cup ((ColA..ColF) \X (11..16)) \cup ((ColA..ColF) \X (1..6))}

\* the last call was Board.is_valid and it refused the move for a wall
RefusedForWall == Answered /\ last.returned = <<FALSE, WallsInTheWay>>

\* the last call was Board.is_valid of the move from M04 to M08
AskedM04ToM08 ==
    /\ last.call = "is_valid"
    /\ Asked.from_square.position = Cell(ColM, 4)
    /\ Asked.to_square.position = Cell(ColM, 8)

\* C24 as stated: the fortress-wall check applies only when both endpoints
\* of the move lie within the corner-arm regions: a move with only one
\* endpoint inside is never rejected with WallsInTheWay, e.g. a move from
\* M04 to M08.
C24_BothEndpointsInside ==
    RefusedForWall =>
        /\ Asked.from_square.position \in ArmCells
        /\ Asked.to_square.position \in ArmCells

\* C24 amended: the fortress-wall check applies when at least one endpoint
\* of the move lies within the corner-arm regions: a move with no endpoint
\* inside is never rejected with WallsInTheWay, and a move from M04 to M08
\* that passes the earlier checks is rejected with WallsInTheWay.
C24_OneEndpointInside ==
    /\ RefusedForWall =>
          \/ Asked.from_square.position \in ArmCells
          \/ Asked.to_square.position \in ArmCells
    /\ (AskedM04ToM08 /\ BeforeWalls(last.before, Asked, AskedIgnoreTurn)) => RefusedForWall

\* C24 happens: a rook on M04 was asked to go to M08, outside the regions,
\* and was refused for the wall
C24_RefusedM04ToM08 ==
    /\ AskedM04ToM08
    /\ Asked.from_square.piece_at.type = "rook"
    /\ Asked.from_square.position \in ArmCells
    /\ Asked.to_square.position \notin ArmCells
    /\ RefusedForWall


\* the 64 absent slots: rows 1-2 and 15-16 x columns E-L, rows 5-12 x
\* columns A-B and O-P
AbsentCells ==
    {Cell(x, y) : <<x, y>> \in ((ColE..ColL) \X {1, 2, 15, 16})
                              \cup ({ColA, ColB, ColO, ColP} \X (5..12))}

\* the cells that hold a piece
Occupied == {i \in 1..256 : layout[i] \notin {Absent, NoPiece}}

\* the offsets possible_moves and check_check pass to get_neighbour: up to
\* 15 steps along a row, column or diagonal, and the knight's jumps
Offsets ==
    {<<b * d[1], b * d[2]>> : <<b, d>> \in (1..15) \X (((-1)..1) \X ((-1)..1))}
        \cup {d \in ((-2)..2) \X ((-2)..2) : d[1] * d[1] + d[2] * d[2] = 5}

\* the slot at the offset d from slot i, 0 off the grid
SlotAt(i, d) ==
    IF column(i) + d[1] \in ColA..ColP /\ row(i) + d[2] \in 1..16
    THEN Cell(column(i) + d[1], row(i) + d[2]) ELSE 0

\* C25: the 64 absent slots hold no cell in the initial board and after any
\* sequence of Board.move and Board.pop, and the other 192 slots hold one;
\* Board.get_neighbour returns none for an absent slot, no
\* Move.possible_moves result contains one and no ray continues past one.
C25_AbsentCellsStayAbsent ==
    /\ Cardinality(AbsentCells) = 64
    /\ \A i \in 1..256 : layout[i] = Absent <=> i \in AbsentCells
    /\ Cardinality({i \in 1..256 : layout[i] # Absent}) = 192
    /\ \A i \in Occupied : \A d \in Offsets :
          (SlotAt(i, d) = 0 \/ SlotAt(i, d) \in AbsentCells)
              <=> get_neighbour(Self, get_square(Self, i), d[1], d[2], FALSE) = NoSquare
    /\ \A i \in Occupied :
          ~possible_moves_raises(Self, get_square(Self, i)) =>
              \A d \in Range(possible_moves(Self, get_square(Self, i))) :
                 /\ d \in (1..256) \ AbsentCells
                 /\ (Aligned(i, d, FALSE) \/ Aligned(i, d, TRUE)) =>
                       Between(i, d) \cap AbsentCells = {}

\* C25 happens: a move has put a piece next to an absent slot
C25_BesideAbsent ==
    /\ MoveReturned
    /\ \E d \in ((-1)..1) \X ((-1)..1) : SlotAt(Moved.to_square.position, d) \in AbsentCells
    /\ layout[Moved.to_square.position] \notin {Absent, NoPiece}


\* the number of pieces a new board holds
StartPieceCount == Cardinality({i \in 1..256 : StartLayout[i] \notin {Absent, NoPiece}})

\* C26: in every state reached by Board.move of accepted moves and Board.pop
\* the number of pieces on the board plus the length of the graveyard equals
\* the initial piece count; Board.move appends to the graveyard exactly when
\* the destination held a piece, and castling and promotion neither create
\* nor remove a piece.
C26_PiecesConserved ==
    /\ OnBoard + Len(graveyard) = StartPieceCount
    /\ last.call = "move" =>
          graveyard = IF Moved.to_square.piece_at # NoPiece
                      THEN Append(last.before.graveyard, Moved.to_square.piece_at)
                      ELSE last.before.graveyard
    /\ (last.call = "move" /\ Moved.to_square.piece_at = NoPiece) =>
          OnBoard = Cardinality({i \in 1..256 : last.before.layout[i] \notin {Absent, NoPiece}})


\* the home cell of the king of each color
HomeCell(color) ==
    IF color = "white" THEN Cell(ColH, 14) ELSE IF color = "grey" THEN Cell(ColI, 3)
    ELSE IF color = "black" THEN Cell(ColC, 8) ELSE Cell(ColN, 9)

\* the last call was Board.is_valid of a move of a king, which it accepted
KingAccepted ==
    /\ Answered
    /\ last.returned[1] = TRUE
    /\ Asked.from_square.piece_at.type = "king"

\* the two cells are neighbours on a row, a column or a diagonal
Adjacent(a, b) ==
    /\ a # b
    /\ column(a) - column(b) \in (-1)..1
    /\ row(a) - row(b) \in (-1)..1

\* C27: every king move that Board.is_valid accepts goes to one of the eight
\* cells next to the king, or starts on the king's home cell, is flagged as
\* castling and relocates a rook of the mover's color from that side's
\* corner; a king that has left its home cell never moves two cells in one
\* move, also while one of its castling rights is still true.
C27_KingStepOrCastle ==
    KingAccepted =>
        LET color   == Asked.from_square.piece_at.color
            from    == Asked.from_square.position
            to      == Asked.to_square.position
            crossed == (from + to) \div 2
            corner  == to + (to - crossed) * (IF castling_of(Asked)[1] THEN 1 ELSE 2)
        IN  \/ Adjacent(from, to)
            \/ /\ from = HomeCell(color)
               /\ castling_of(Asked) # NoCastling
               /\ last.before.layout[corner] = Piece("rook", color)


\* the last call was Move.check_check of the cell of a king, on a board with
\* no frozen color
CheckAsked ==
    /\ last.call = "check_check"
    /\ \A c \in ColorSet : ~last.before.frozen[c]

\* the cells of b holding a piece other than a king, of the team opposed to
\* color, whose possible_moves list holds the cell at
Attackers(b, color, at) ==
    {i \in 1..256 :
        /\ b.layout[i] \notin {Absent, NoPiece}
        /\ b.layout[i].color \in get_teams(color)[2]
        /\ b.layout[i].type # "king"
        /\ ~possible_moves_raises(b, get_square(b, i))
        /\ at \in Range(possible_moves(b, get_square(b, i)))}

\* C28: on a board with no frozen color, Move.check_check of the cell of a
\* king is true exactly when some piece of the enemy team other than a king
\* has that cell in its Move.possible_moves list, pawns whose forward cell is
\* off the board or absent included.
C28_CheckAgreesWithMoves ==
    CheckAsked =>
        (last.returned[1]
            <=> Attackers(last.before, last.args[1].piece_at.color,
                          last.args[1].position) # {})

=============================================================================
